---- MODULE Spec2Model ----
(***************************************************************************)
(* Share-Paint: the relay (server, src/unnamed/part_005), the client hook  *)
(* (src/src/hooks/useCanvas.ts) and the client's socket service            *)
(* (src/src/services/socketService.ts) as one state machine.               *)
(*                                                                         *)
(* Every client owns one socket; socket.io delivers in order and without   *)
(* loss per connection, so each direction of a connection is a FIFO queue. *)
(* A JS object is a TLA+ record whose DOMAIN is the set of keys present:   *)
(* an optional key that is absent is absent from the DOMAIN, and the       *)
(* object spread {...a, ...b} is b @@ a.                                   *)
(* A Point is modelled by its x coordinate (y is 0 throughout).            *)
(***************************************************************************)
EXTENDS Integers, Sequences, FiniteSets, TLC

(***************************************************************************)
(* Bounds of the model                                                     *)
(***************************************************************************)
MaxPoints == 4
MaxStrokes == 2
MaxOps == 5
MaxTtlOps == 5
MaxRoomOps == 4
MaxUndoOps == 6
MaxMergeOps == 3
MaxHistoryOps == 6
MaxLimitOps == 6
MaxPeerOps == 8
MaxShapeOps == 6
MaxBatchOps == 6
MaxCursorOps == 4
MaxCursorMs == 200
\* Date.now() when the page loads, far beyond every interval of the code
CursorEpoch == 1000
MaxTicks == 3

Users == {"u1", "u2"}
UserOrder == <<"u1", "u2">>
RoomIds == {"r1", "r2"}
ToolSet == {"brush", "line"}
\* the tools whose shape is defined by the first and the last point
ShapeTools == {"line", "circle", "rectangle"}
\* The users are interchangeable in the code; the ones who draw are called
\* Authors, and a stroke starts at StartPoints and moves by one of Moves
\* (nearer than MIN_DISTANCE, within 3 * MIN_DISTANCE, beyond it).
Authors == {"u1"}
StartPoints == {0}
\* pointer positions off a stroke, and the times between two pointer events
CursorPoints == {1, 2}
CursorWaits == {50, 100}
Moves == {0, 3, 12}
TickSteps == {1, 3}
Peers == Users \ Authors
StrokeIds == 1..MaxStrokes
\* ids of strokes that users outside the model have drawn
RemoteIds == {MaxStrokes + 1}
\* the points an author's stroke accumulates, in order
Stream == [i \in 1..MaxPoints |-> 10 * i]

(***************************************************************************)
(* Program constants                                                       *)
(***************************************************************************)
TTL_MS == 30 * 60 * 1000
MIN_DISTANCE == 2
MAX_BATCH_SIZE == 5
HISTORY_LIMIT == 100
InterpolationSteps == 2
CURSOR_BATCH_MS == 100
CURSOR_THROTTLE_MS == 50

\* the lengths of the history a session starts from: short ones, and the
\* ones around the limit
HistoryLengths == {0, 1, 2, 3, HISTORY_LIMIT - 1, HISTORY_LIMIT}

\* The clock advances in steps of half the TTL window, so that a stroke's age
\* takes the values 0, TTL/2, TTL (the boundary) and beyond.
TickMs == TTL_MS \div 2

NoRoomId == "null"
NoDrawing == [id |-> 0]
\* a timer handle that is null
NoTimer == -1

VARIABLES
    rooms,       \* relay: Map roomId -> [id, users, drawings]
    userRooms,   \* relay: Map userId -> roomId
    sockRooms,   \* socket.io: the rooms each socket has joined
    connected,   \* whether each client's socket is connected
    toRelay,     \* per client, the events sent to the relay and not yet handled
    inbox,       \* per client, the events the relay sent it, not yet handled
    client,      \* per client, the CanvasState of useCanvas
    currentRef,  \* per client, currentDrawingRef.current
    svc,         \* per client, the SocketService's drawingBuffer and timer
    now,         \* Date.now()
    nextId,      \* number of stroke ids generated so far (uuidv4 is fresh)
    opsLeft,     \* number of calls the users and the environment may still make
    emitted,     \* the relay's emissions of the step just taken, in order
    lastOp       \* the step just taken

vars == <<rooms, userRooms, sockRooms, connected, toRelay, inbox, client,
          currentRef, svc, now, nextId, opsLeft, emitted, lastOp>>

(***************************************************************************)
(* Generic helpers                                                         *)
(***************************************************************************)
Has(obj, key) == key \in DOMAIN obj

Spread(a, b) == b @@ a

MapDelete(m, k) == [x \in (DOMAIN m) \ {k} |-> m[x]]

MapSet(m, k, v) == [x \in (DOMAIN m) \cup {k} |-> IF x = k THEN v ELSE m[x]]

Truthy(obj, key) == Has(obj, key) /\ obj[key] = TRUE

\* Array.prototype.slice(from) and slice(0, to), 0-based as in JS
SliceFrom(s, from) == SubSeq(s, from + 1, Len(s))

SliceTo(s, to) == SubSeq(s, 1, IF to < Len(s) THEN to ELSE Len(s))

\* Array.prototype.findIndex on ids, 1-based; 0 stands for -1
FindIndex(ds, id) ==
    IF \E i \in 1..Len(ds) : ds[i].id = id
    THEN CHOOSE i \in 1..Len(ds) :
             ds[i].id = id /\ \A j \in 1..(i - 1) : ds[j].id # id
    ELSE 0

Op(kind, user, room, id) == [kind |-> kind, user |-> user, room |-> room, id |-> id]

(***************************************************************************)
(* socket.io emission                                                      *)
(***************************************************************************)
Members(sr, r) == {u \in Users : r \in sr[u]}

\* the recipients of io.to(roomId) and of socket.to(roomId)
ioTo(sr, roomId) == Members(sr, roomId)

\* variant: the sender is not left out
socketToAll(sr, sock, roomId) == Members(sr, roomId)

socketTo(sr, sock, roomId) == Members(sr, roomId) \ {sock}

\* one emission to every socket of recips (a broadcast reaches them in no
\* particular order; the log lists them in UserOrder)
Broadcast(recips, msg) ==
    LET to == SelectSeq(UserOrder, LAMBDA u : u \in recips)
    IN  [i \in 1..Len(to) |-> [to |-> to[i], msg |-> msg]]

\* the queues after the emissions em have been sent
Deliver(box, em) ==
    [u \in Users |->
        LET mine == SelectSeq(em, LAMBDA e : e.to = u)
        IN  box[u] \o [i \in 1..Len(mine) |-> mine[i].msg]]

(***************************************************************************)
(* The relay (src/unnamed/part_005).  A handler runs to completion; the    *)
(* relay state it works on is the record                                   *)
(*   [rooms, userRooms, sockRooms, em, closed]                             *)
(* (em: the emissions made so far; closed: the sockets the handler has     *)
(* disconnected, which no handler of the relay does).                      *)
(***************************************************************************)
RelayState == [rooms |-> rooms, userRooms |-> userRooms,
               sockRooms |-> sockRooms, em |-> <<>>, closed |-> {}]

NewRoom(r) == [id |-> r, users |-> {}, drawings |-> <<>>]

\* variant: leaving does nothing
leaveRoomNot(S, sock, roomId, userId) == S

\* variant: a room left empty is kept
leaveRoomKeepEmpty(S, sock, roomId, userId) ==
    IF roomId \in DOMAIN S.rooms /\ userId \in S.rooms[roomId].users
    THEN LET sr1 == [S.sockRooms EXCEPT ![sock] = @ \ {roomId}]
         IN  [S EXCEPT !.rooms[roomId].users = @ \ {userId},
                       !.userRooms = MapDelete(S.userRooms, userId),
                       !.sockRooms = sr1,
                       !.em = @ \o Broadcast(socketTo(sr1, sock, roomId),
                                             [type |-> "user-left", userId |-> userId])]
    ELSE S

\* function leaveRoom(socket, roomId, userId); sock is the calling socket
leaveRoom(S, sock, roomId, userId) ==
    IF roomId \in DOMAIN S.rooms /\ userId \in S.rooms[roomId].users
    THEN LET users1 == S.rooms[roomId].users \ {userId}
             sr1 == [S.sockRooms EXCEPT ![sock] = @ \ {roomId}]
             em1 == S.em \o Broadcast(socketTo(sr1, sock, roomId),
                                      [type |-> "user-left", userId |-> userId])
             rooms1 == [S.rooms EXCEPT ![roomId].users = users1]
         IN  [S EXCEPT !.rooms = IF users1 = {} THEN MapDelete(rooms1, roomId)
                                 ELSE rooms1,
                       !.userRooms = MapDelete(S.userRooms, userId),
                       !.sockRooms = sr1,
                       !.em = em1]
    ELSE S

\* variant: only the strokes younger than the TTL are replayed
ReplayUnexpired(sock, drawings) ==
    LET young == SelectSeq(drawings, LAMBDA d : d.timestamp > now - TTL_MS)
    IN  [i \in 1..Len(young) |->
            [to |-> sock, msg |-> [type |-> "drawing-data", data |-> young[i]]]]

\* the replay of the stored strokes to the joining socket
ReplayDrawings(sock, drawings) ==
    [i \in 1..Len(drawings) |->
        [to |-> sock, msg |-> [type |-> "drawing-data", data |-> drawings[i]]]]

\* variant: the socket is closed after the error
roomErrorAndClose(S, sock) ==
    [S EXCEPT !.em = @ \o <<[to |-> sock, msg |-> [type |-> "room-error"]]>>,
              !.closed = @ \cup {sock}]

\* the room does not exist: socket.emit('room-error', ...); return
roomError(S, sock) ==
    [S EXCEPT !.em = @ \o <<[to |-> sock, msg |-> [type |-> "room-error"]]>>]

\* variant: the members are told before the joiner is answered
joinEmissionsAnnounceFirst(sr, sock, room, userId) ==
    Broadcast(socketTo(sr, sock, room.id), [type |-> "user-joined", user |-> userId])
    \o <<[to |-> sock,
          msg |-> [type |-> "room-joined", roomId |-> room.id, users |-> room.users]]>>
    \o ReplayDrawings(sock, room.drawings)

\* what a join emits once the user is registered in room, in the code's order
joinEmissions(sr, sock, room, userId) ==
    <<[to |-> sock,
       msg |-> [type |-> "room-joined", roomId |-> room.id, users |-> room.users]]>>
    \o ReplayDrawings(sock, room.drawings)
    \o Broadcast(socketTo(sr, sock, room.id), [type |-> "user-joined", user |-> userId])

\* socket.on('join-room', (roomId, user) => ...)
onJoinRoom(S, sock, roomId, userId) ==
    LET S1 == IF userId \in DOMAIN S.userRooms
              THEN leaveRoom(S, sock, S.userRooms[userId], userId)
              ELSE S
    IN  IF roomId \notin DOMAIN S1.rooms
        THEN roomError(S1, sock)
        ELSE LET rooms1 == [S1.rooms EXCEPT ![roomId].users = @ \cup {userId}]
                 sr1 == [S1.sockRooms EXCEPT ![sock] = @ \cup {roomId}]
             IN  [S1 EXCEPT !.rooms = rooms1,
                            !.userRooms = MapSet(S1.userRooms, userId, roomId),
                            !.sockRooms = sr1,
                            !.em = @ \o joinEmissions(sr1, sock, rooms1[roomId], userId)]

\* variant: a message as long as the stored record counts as longer
IsNotShorter(data, existingDrawing) == Len(data.points) >= Len(existingDrawing.points)

\* data.points.length > existingDrawing.points.length
IsLonger(data, existingDrawing) == Len(data.points) > Len(existingDrawing.points)

\* variant: the update names no base
IncrementalUpdateFromZero(data, existingDrawing) ==
    Spread(data, [points |-> SliceFrom(data.points, Len(existingDrawing.points)),
                  isIncremental |-> TRUE,
                  basePointCount |-> 0])

\* variant: the update carries all the incoming points
IncrementalUpdateUnsliced(data, existingDrawing) ==
    Spread(data, [isIncremental |-> TRUE,
                  basePointCount |-> Len(existingDrawing.points)])

\* the update the relay rebroadcasts for a stroke it already stores
IncrementalUpdate(data, existingDrawing) ==
    Spread(data, [points |-> SliceFrom(data.points, Len(existingDrawing.points)),
                  isIncremental |-> TRUE,
                  basePointCount |-> Len(existingDrawing.points)])

\* variant: nothing is purged
SweepNothing(drawings, t) == drawings

\* room.drawings.filter(d => d.timestamp > thirtyMinutesAgo)
SweepExpired(drawings, t) ==
    SelectSeq(drawings, LAMBDA d : d.timestamp > t - TTL_MS)

\* socket.on('drawing-data', (data) => ...)
onDrawingData(S, sock, data, t) ==
    LET roomId == data.roomId
    IN  IF roomId \notin DOMAIN S.rooms THEN S
        ELSE LET ds == S.rooms[roomId].drawings
                 existingIndex == FindIndex(ds, data.id)
                 others == socketTo(S.sockRooms, sock, roomId)
                 longer == existingIndex # 0 /\ IsLonger(data, ds[existingIndex])
                 ds1 == IF existingIndex = 0 THEN Append(ds, data)
                        ELSE IF longer THEN [ds EXCEPT ![existingIndex] = data]
                        ELSE ds
                 em1 == IF existingIndex = 0
                        THEN Broadcast(others, [type |-> "drawing-data", data |-> data])
                        ELSE IF longer
                        THEN Broadcast(others,
                                 [type |-> "drawing-data",
                                  data |-> IncrementalUpdate(data, ds[existingIndex])])
                        ELSE <<>>
             IN  [S EXCEPT !.rooms[roomId].drawings = SweepExpired(ds1, t),
                           !.em = @ \o em1]

\* variant: the clear is announced but the log is kept
onClearCanvasKeepLog(S, roomId) ==
    IF roomId \notin DOMAIN S.rooms THEN S
    ELSE [S EXCEPT !.em = @ \o Broadcast(ioTo(S.sockRooms, roomId),
                                         [type |-> "canvas-clear"])]

\* socket.on('clear-canvas', (roomId) => ...)
onClearCanvas(S, roomId) ==
    IF roomId \notin DOMAIN S.rooms THEN S
    ELSE [S EXCEPT !.rooms[roomId].drawings = <<>>,
                   !.em = @ \o Broadcast(ioTo(S.sockRooms, roomId),
                                         [type |-> "canvas-clear"])]

\* variant: the relay applies the undo to its stored copy
onUndoCanvasMarking(S, roomId, userId, drawingId) ==
    IF roomId \in DOMAIN S.rooms /\ userId \in S.rooms[roomId].users
    THEN [S EXCEPT !.rooms[roomId].drawings =
                      [i \in 1..Len(@) |->
                          IF @[i].id = drawingId
                          THEN Spread(@[i], [isDeleted |-> TRUE]) ELSE @[i]],
                   !.em = @ \o Broadcast(ioTo(S.sockRooms, roomId),
                                         [type |-> "canvas-undo", userId |-> userId,
                                          drawingId |-> drawingId])]
    ELSE S

\* socket.on('undo-canvas', (roomId, userId, drawingId) => ...)
\* user-cursor: forwarded to the other members when the user is in the room
onUserCursor(S, sock, roomId, userId, cursor) ==
    IF roomId \in DOMAIN S.rooms /\ userId \in S.rooms[roomId].users
    THEN [S EXCEPT !.em = @ \o Broadcast(socketTo(S.sockRooms, sock, roomId),
                                         [type |-> "user-cursor", userId |-> userId,
                                          cursor |-> cursor])]
    ELSE S

onUndoCanvas(S, roomId, userId, drawingId) ==
    IF roomId \in DOMAIN S.rooms /\ userId \in S.rooms[roomId].users
    THEN [S EXCEPT !.em = @ \o Broadcast(ioTo(S.sockRooms, roomId),
                                         [type |-> "canvas-undo", userId |-> userId,
                                          drawingId |-> drawingId])]
    ELSE S

\* socket.on('redo-canvas', (roomId, userId, drawingId) => ...)
onRedoCanvas(S, roomId, userId, drawingId) ==
    IF roomId \in DOMAIN S.rooms /\ userId \in S.rooms[roomId].users
    THEN [S EXCEPT !.em = @ \o Broadcast(ioTo(S.sockRooms, roomId),
                                         [type |-> "canvas-redo", userId |-> userId,
                                          drawingId |-> drawingId])]
    ELSE S

\* variant: only socket.io forgets the socket
onDisconnectSocketOnly(S, sock) == [S EXCEPT !.sockRooms[sock] = {}]

\* socket.on('disconnect'): the first room that lists a user with this
\* socket's id (a socket registers one user id, its own); socket.io has
\* already removed the closed socket from every room it had joined
onDisconnect(S, sock) ==
    LET S0 == [S EXCEPT !.sockRooms[sock] = {}]
        found == {r \in DOMAIN S.rooms : sock \in S.rooms[r].users}
    IN  IF found = {} THEN S0
        ELSE leaveRoom(S0, sock, CHOOSE r \in found : TRUE, sock)

\* app.get('/api/room/:roomId/exists'): the value of exists in the answer
roomExists(rs, roomId) == roomId \in DOMAIN rs

\* variant: a taken id gets a fresh room
createRoomOverwriting(rs, roomId) == MapSet(rs, roomId, NewRoom(roomId))

\* app.post('/api/room/create')
createRoom(rs, roomId) ==
    IF roomId \in DOMAIN rs THEN rs ELSE MapSet(rs, roomId, NewRoom(roomId))


(***************************************************************************)
(* The client's socket service (src/src/services/socketService.ts).        *)
(* Its operations work on [svc, out]: the service's fields and the         *)
(* client's queue of events emitted to the relay.                          *)
(***************************************************************************)
RECURSIVE OptimizeFold(_, _, _)
OptimizeFold(buffer, drawingMap, orderedIds) ==
    IF buffer = <<>>
    THEN [i \in 1..Len(orderedIds) |-> drawingMap[orderedIds[i]]]
    ELSE LET data == Head(buffer)
             known == data.id \in DOMAIN drawingMap
             keep == \/ ~known
                     \/ Len(data.points) > Len(drawingMap[data.id].points)
                     \/ /\ Len(data.points) = Len(drawingMap[data.id].points)
                        /\ data.timestamp > drawingMap[data.id].timestamp
         IN  OptimizeFold(Tail(buffer),
                          IF keep THEN MapSet(drawingMap, data.id, data) ELSE drawingMap,
                          IF ~known THEN Append(orderedIds, data.id) ELSE orderedIds)

optimizeDrawingData(buffer) == OptimizeFold(buffer, <<>>, <<>>)

flushDrawingBuffer(C, conn) ==
    IF Len(C.svc.drawingBuffer) > 0 /\ conn
    THEN LET optimizedData == optimizeDrawingData(C.svc.drawingBuffer)
         IN  [svc |-> [C.svc EXCEPT !.drawingBuffer = <<>>],
              out |-> C.out \o [i \in 1..Len(optimizedData) |->
                                  [type |-> "drawing-data", data |-> optimizedData[i]]]]
    ELSE C

\* variant: a service that queues only the newest point of the stroke, marked
\* as an increment over the points before it
sendDrawingDataIncrement(C, conn, data) ==
    IF ~conn THEN C
    ELSE LET n == Len(data.points)
             inc == [isIncremental |-> TRUE, basePointCount |-> n - 1]
                    @@ [data EXCEPT !.points = <<@[n]>>]
             C1 == [C EXCEPT !.svc.drawingBuffer =
                        Append(@, IF n > 1 THEN inc ELSE data)]
         IN  IF Len(C1.svc.drawingBuffer) >= MAX_BATCH_SIZE
             THEN flushDrawingBuffer(C1, conn)
             ELSE [C1 EXCEPT !.svc.drawingBatchTimeout = TRUE]

\* variant: a service that never starts the batch timer
sendDrawingDataUntimed(C, conn, data) ==
    IF ~conn THEN C
    ELSE LET C1 == [C EXCEPT !.svc.drawingBuffer = Append(@, data)]
         IN  IF Len(C1.svc.drawingBuffer) >= MAX_BATCH_SIZE
             THEN flushDrawingBuffer(C1, conn)
             ELSE C1

sendDrawingData(C, conn, data) ==
    IF ~conn THEN C
    ELSE LET C1 == [C EXCEPT !.svc.drawingBuffer = Append(@, data)]
         IN  IF Len(C1.svc.drawingBuffer) >= MAX_BATCH_SIZE
             THEN flushDrawingBuffer(C1, conn)
             ELSE [C1 EXCEPT !.svc.drawingBatchTimeout = TRUE]

\* the first buffered cursor of a user, 0 if none
CursorIndex(buffer, userId) ==
    LET S == {i \in 1..Len(buffer) : buffer[i].userId = userId}
    IN  IF S = {} THEN 0 ELSE CHOOSE i \in S : \A j \in S : i <= j

\* new Map filled by set(): one entry per user in order of first appearance,
\* holding the user's last buffered cursor
RECURSIVE LatestFold(_, _)
LatestFold(buffer, acc) ==
    IF buffer = <<>> THEN acc
    ELSE LET c == Head(buffer)
             idx == CursorIndex(acc, c.userId)
         IN  LatestFold(Tail(buffer),
                        IF idx = 0 THEN Append(acc, c) ELSE [acc EXCEPT ![idx] = c])

latestCursors(buffer) == LatestFold(buffer, <<>>)

flushCursorBuffer(C, conn, t) ==
    IF Len(C.svc.cursorBuffer) > 0 /\ conn
    THEN LET latest == latestCursors(C.svc.cursorBuffer)
         IN  [svc |-> [C.svc EXCEPT !.cursorBuffer = <<>>, !.lastCursorSend = t],
              out |-> C.out \o [i \in 1..Len(latest) |->
                                  [type |-> "user-cursor", roomId |-> latest[i].roomId,
                                   userId |-> latest[i].userId,
                                   cursor |-> latest[i].cursor]]]
    ELSE C

sendCursorPosition(C, conn, t, roomId, userId, cursor) ==
    IF ~conn THEN C
    ELSE LET c == [roomId |-> roomId, userId |-> userId, cursor |-> cursor]
             existingIndex == CursorIndex(C.svc.cursorBuffer, userId)
         IN  IF t - C.svc.lastCursorSend < CURSOR_BATCH_MS
             THEN IF existingIndex # 0
                  THEN [C EXCEPT !.svc.cursorBuffer[existingIndex] = c]
                  ELSE [C EXCEPT !.svc.cursorBuffer = Append(@, c)]
             ELSE [C EXCEPT !.svc.cursorBuffer = Append(@, c),
                            !.svc.cursorBatchTimeout =
                                IF @ = NoTimer THEN t + CURSOR_BATCH_MS ELSE @]

\* joinRoom, leaveRoom, clearCanvas of the service: emitted at once when connected
emitNow(out, conn, msg) == IF conn THEN Append(out, msg) ELSE out

(***************************************************************************)
(* The client hook (src/src/hooks/useCanvas.ts)                            *)
(***************************************************************************)
Abs(x) == IF x < 0 THEN -x ELSE x

calculateDistance(p1, p2) == Abs(p2 - p1)

interpolatePoints(p1, p2, steps) ==
    [i \in 1..steps |-> p1 + ((p2 - p1) * i) \div (steps + 1)]

\* the points draw() appends for a sample; <<>> when the sample is dropped
pointsToAdd(lastPoint, point) ==
    IF calculateDistance(lastPoint, point) < MIN_DISTANCE THEN <<>>
    ELSE IF calculateDistance(lastPoint, point) > MIN_DISTANCE * 3
    THEN interpolatePoints(lastPoint, point, InterpolationSteps) \o <<point>>
    ELSE <<point>>

WithoutId(ds, id) == SelectSeq(ds, LAMBDA d : d.id # id)

\* Array.prototype.sort((a, b) => a.timestamp - b.timestamp), which is stable
RECURSIVE InsertByTimestamp(_, _)
InsertByTimestamp(sorted, d) ==
    IF sorted = <<>> THEN <<d>>
    ELSE IF Head(sorted).timestamp <= d.timestamp
    THEN <<Head(sorted)>> \o InsertByTimestamp(Tail(sorted), d)
    ELSE <<d>> \o sorted

RECURSIVE SortFrom(_, _)
SortFrom(sorted, rest) ==
    IF rest = <<>> THEN sorted
    ELSE SortFrom(InsertByTimestamp(sorted, Head(rest)), Tail(rest))

SortByTimestamp(ds) == SortFrom(<<>>, ds)

\* variant: a full message replaces the local record, flag and all
MergeDrawingReplacing(drawings, data) ==
    LET idx == FindIndex(drawings, data.id)
        existing == IF idx = 0 THEN <<>> ELSE drawings[idx]
    IN  IF Truthy(data, "isIncremental") /\ idx # 0
        THEN Spread(Spread(existing, data),
                    [points |-> SliceTo(existing.points, data.basePointCount)
                                   \o data.points])
        ELSE data

\* the record handleDrawingData stores for data, given the local drawings
\* variant: on a full message the fields of the record already held win
MergeDrawingExistingWins(drawings, data) ==
    LET idx == FindIndex(drawings, data.id)
        existing == IF idx = 0 THEN <<>> ELSE drawings[idx]
        baseCount == IF Has(data, "basePointCount") THEN data.basePointCount
                     ELSE Len(existing.points)
        updated ==
            IF Truthy(data, "isIncremental") /\ idx # 0
            THEN Spread(Spread(existing, data),
                        [points |-> SliceTo(existing.points, baseCount) \o data.points,
                         timestamp |-> data.timestamp])
            ELSE IF Truthy(data, "isIncremental") /\ idx = 0
            THEN data
            ELSE Spread(Spread(data, existing), [timestamp |-> data.timestamp])
    IN  IF idx # 0 /\ Truthy(existing, "isDeleted")
        THEN Spread(updated, [isDeleted |-> TRUE])
        ELSE updated

MergeDrawing(drawings, data) ==
    LET idx == FindIndex(drawings, data.id)
        existing == IF idx = 0 THEN <<>> ELSE drawings[idx]
        baseCount == IF Has(data, "basePointCount") THEN data.basePointCount
                     ELSE Len(existing.points)
        updated ==
            IF Truthy(data, "isIncremental") /\ idx # 0
            THEN Spread(Spread(existing, data),
                        [points |-> SliceTo(existing.points, baseCount) \o data.points,
                         timestamp |-> data.timestamp])
            ELSE IF Truthy(data, "isIncremental") /\ idx = 0
            THEN data
            ELSE Spread(Spread(existing, data), [timestamp |-> data.timestamp])
    IN  IF idx # 0 /\ Truthy(existing, "isDeleted")
        THEN Spread(updated, [isDeleted |-> TRUE])
        ELSE updated

\* variant: the merged record replaces the whole list
handleDrawingDataAlone(drawings, data) == <<MergeDrawing(drawings, data)>>

handleDrawingData(drawings, data) ==
    SortByTimestamp(Append(WithoutId(drawings, data.id), MergeDrawing(drawings, data)))

\* variant: the new id is appended after everything the history holds
PushHistoryKeepingFuture(userHistory, userHistoryIndex, id) ==
    LET pushed == Append(userHistory, id)
    IN  IF Len(pushed) > HISTORY_LIMIT THEN Tail(pushed) ELSE pushed

\* variant: the newest entry gives way at the limit
PushHistoryEvictingNewest(userHistory, userHistoryIndex, id) ==
    LET kept == IF userHistoryIndex < Len(userHistory) - 1
                THEN SubSeq(userHistory, 1, userHistoryIndex + 1)
                ELSE userHistory
        pushed == Append(kept, id)
    IN  IF Len(pushed) > HISTORY_LIMIT
        THEN SubSeq(kept, 1, Len(kept) - 1) \o <<id>>
        ELSE pushed

\* the userHistory endDrawing leaves
PushHistory(userHistory, userHistoryIndex, id) ==
    LET kept == IF userHistoryIndex < Len(userHistory) - 1
                THEN SubSeq(userHistory, 1, userHistoryIndex + 1)
                ELSE userHistory
        pushed == Append(kept, id)
    IN  IF Len(pushed) > HISTORY_LIMIT THEN Tail(pushed) ELSE pushed

\* variant: the flag is never written
MarkNothing(drawings, drawingId, userId, deleted) == drawings

\* prev.drawings.map(d => d.id === drawingId && d.userId === userId
\*                         ? { ...d, isDeleted: deleted } : d)
MarkDeleted(drawings, drawingId, userId, deleted) ==
    [i \in 1..Len(drawings) |->
        IF drawings[i].id = drawingId /\ drawings[i].userId = userId
        THEN Spread(drawings[i], [isDeleted |-> deleted])
        ELSE drawings[i]]

\* variant: undo removes the stroke from the local drawings
undoStateDropping(prev, userId) ==
    IF prev.userHistoryIndex >= 0
    THEN [prev EXCEPT
            !.drawings = WithoutId(@, prev.userHistory[prev.userHistoryIndex + 1]),
            !.userHistoryIndex = @ - 1]
    ELSE prev

\* the CanvasState undo() leaves: newState, or prev when nothing is to undo
undoState(prev, userId) ==
    IF prev.userHistoryIndex >= 0
    THEN [prev EXCEPT
            !.drawings = MarkDeleted(@, prev.userHistory[prev.userHistoryIndex + 1],
                                     userId, TRUE),
            !.userHistoryIndex = @ - 1]
    ELSE prev

\* the CanvasState redo() leaves: newState, or prev at the newest point
redoState(prev, userId) ==
    IF prev.userHistoryIndex < Len(prev.userHistory) - 1
    THEN [prev EXCEPT
            !.drawings = MarkDeleted(@, prev.userHistory[prev.userHistoryIndex + 2],
                                     userId, FALSE),
            !.userHistoryIndex = @ + 1]
    ELSE prev

InitialClient == [drawings |-> <<>>, currentTool |-> "brush", currentColor |-> "#40BFBF",
                  isDrawing |-> FALSE, roomId |-> NoRoomId,
                  userHistory |-> <<>>, userHistoryIndex |-> -1]

\* cursorBatchTimeout is the time at which the pending cursor timer is due;
\* lastCursorSentRef is the hook's own throttle reference
InitialService == [drawingBuffer |-> <<>>, drawingBatchTimeout |-> FALSE,
                   cursorBuffer |-> <<>>, cursorBatchTimeout |-> NoTimer,
                   lastCursorSend |-> 0, lastCursorSentRef |-> 0]


(***************************************************************************)
(* Initial state: the relay has just started, every client has connected   *)
(* (App connects on load) and none has joined a room.                      *)
(***************************************************************************)
InitWith(ops) ==
    /\ rooms = <<>>
    /\ userRooms = <<>>
    /\ sockRooms = [u \in Users |-> {}]
    /\ connected = [u \in Users |-> TRUE]
    /\ toRelay = [u \in Users |-> <<>>]
    /\ inbox = [u \in Users |-> <<>>]
    /\ client = [u \in Users |-> InitialClient]
    /\ currentRef = [u \in Users |-> NoDrawing]
    /\ svc = [u \in Users |-> InitialService]
    /\ now = 0
    /\ nextId = 0
    /\ opsLeft = ops
    /\ emitted = <<>>
    /\ lastOp = Op("init", "", "", 0)

Init == InitWith(MaxOps)
TtlInit == InitWith(MaxTtlOps)
RoomInit == InitWith(MaxRoomOps)
UndoInit == InitWith(MaxUndoOps)
MergeInit == InitWith(MaxMergeOps)
HistoryInit == InitWith(MaxHistoryOps)
PeerInit == InitWith(MaxPeerOps)

\* the ids of n strokes completed earlier, oldest first
EarlierIds(n) == [k \in 1..n |-> MaxStrokes + k]

\* A session in progress: an author who has completed n strokes and undone
\* some of them has left the room and called joinRoom again (both keep the
\* history and empty the drawings), and no message is in flight.
LimitInit ==
    /\ rooms = <<>>
    /\ userRooms = <<>>
    /\ sockRooms = [u \in Users |-> {}]
    /\ connected = [u \in Users |-> TRUE]
    /\ toRelay = [u \in Users |-> <<>>]
    /\ inbox = [u \in Users |-> <<>>]
    /\ \E n \in HistoryLengths, i \in -1..HISTORY_LIMIT :
          /\ i < n
          /\ i \in {-1, 0, n - 2, n - 1}
          /\ client = [u \in Users |->
                         IF u \in Authors
                         THEN [InitialClient EXCEPT !.roomId = "r1",
                                                    !.userHistory = EarlierIds(n),
                                                    !.userHistoryIndex = i]
                         ELSE InitialClient]
    /\ currentRef = [u \in Users |-> NoDrawing]
    /\ svc = [u \in Users |-> InitialService]
    /\ now = 0
    /\ nextId = 0
    /\ opsLeft = MaxLimitOps
    /\ emitted = <<>>
    /\ lastOp = Op("init", "", "", 0)

(***************************************************************************)
(* Steps of the relay                                                      *)
(***************************************************************************)
\* a call by a user or by the environment, of which a run makes a bounded number
Counted ==
    /\ opsLeft > 0
    /\ opsLeft' = opsLeft - 1

\* messages emitted to a socket reach it while it is connected
Connected(em) == SelectSeq(em, LAMBDA e : connected[e.to])

RelayCommit(S) ==
    /\ rooms' = S.rooms
    /\ userRooms' = S.userRooms
    /\ sockRooms' = S.sockRooms
    /\ connected' = [u \in Users |-> connected[u] /\ u \notin S.closed]
    /\ inbox' = Deliver(inbox, Connected(S.em))
    /\ emitted' = S.em

RelayHandled(u) ==
    /\ toRelay' = [toRelay EXCEPT ![u] = Tail(@)]
    /\ UNCHANGED <<client, currentRef, svc, now, nextId, opsLeft>>

HeadIs(u, type) == toRelay[u] # <<>> /\ Head(toRelay[u]).type = type

CreateRoom(r) ==
    /\ rooms' = createRoom(rooms, r)
    /\ emitted' = <<>>
    /\ lastOp' = Op(IF r \in DOMAIN rooms THEN "create-409" ELSE "create-ok", "", r, 0)
    /\ UNCHANGED <<userRooms, sockRooms, connected, toRelay, inbox, client,
                   currentRef, svc, now, nextId, opsLeft>>

RelayJoinRoom(u) ==
    /\ HeadIs(u, "join-room")
    /\ LET m == Head(toRelay[u])
           S == onJoinRoom(RelayState, u, m.roomId, m.userId)
       IN  /\ RelayCommit(S)
           /\ lastOp' = Op(IF m.roomId \in DOMAIN S.rooms
                              /\ m.userId \in S.rooms[m.roomId].users
                           THEN "join-ok" ELSE "join-error", u, m.roomId, 0)
    /\ RelayHandled(u)

RelayLeaveRoom(u) ==
    /\ HeadIs(u, "leave-room")
    /\ LET m == Head(toRelay[u])
       IN  /\ RelayCommit(leaveRoom(RelayState, u, m.roomId, m.userId))
           /\ lastOp' = Op("leave-room", u, m.roomId, 0)
    /\ RelayHandled(u)

RelayDrawingData(u) ==
    /\ HeadIs(u, "drawing-data")
    /\ LET m == Head(toRelay[u])
       IN  /\ RelayCommit(onDrawingData(RelayState, u, m.data, now))
           /\ lastOp' = Op("drawing-data", u, m.data.roomId, m.data.id)
    /\ RelayHandled(u)

RelayClearCanvas(u) ==
    /\ HeadIs(u, "clear-canvas")
    /\ LET m == Head(toRelay[u])
       IN  /\ RelayCommit(onClearCanvas(RelayState, m.roomId))
           /\ lastOp' = Op("clear-canvas", u, m.roomId, 0)
    /\ RelayHandled(u)

RelayUndoCanvas(u) ==
    /\ HeadIs(u, "undo-canvas")
    /\ LET m == Head(toRelay[u])
       IN  /\ RelayCommit(onUndoCanvas(RelayState, m.roomId, m.userId, m.drawingId))
           /\ lastOp' = Op("undo-canvas", u, m.roomId, m.drawingId)
    /\ RelayHandled(u)

RelayRedoCanvas(u) ==
    /\ HeadIs(u, "redo-canvas")
    /\ LET m == Head(toRelay[u])
       IN  /\ RelayCommit(onRedoCanvas(RelayState, m.roomId, m.userId, m.drawingId))
           /\ lastOp' = Op("redo-canvas", u, m.roomId, m.drawingId)
    /\ RelayHandled(u)

\* The transport of u closes.  What u had sent precedes the close on the wire,
\* what the relay had sent and u had not handled is lost.
Disconnect(u) ==
    /\ connected[u]
    /\ toRelay[u] = <<>>
    /\ connected' = [connected EXCEPT ![u] = FALSE]
    /\ LET S == onDisconnect(RelayState, u)
       IN  /\ rooms' = S.rooms
           /\ userRooms' = S.userRooms
           /\ sockRooms' = S.sockRooms
           /\ inbox' = [Deliver(inbox, Connected(S.em)) EXCEPT ![u] = <<>>]
           /\ emitted' = S.em
    /\ lastOp' = Op("disconnect", u, "", 0)
    /\ Counted
    /\ UNCHANGED <<toRelay, client, currentRef, svc, now, nextId>>

(***************************************************************************)
(* Steps of a client: the calls of the hook                                *)
(***************************************************************************)
ClientStep(kind, u, room, id) ==
    /\ Counted
    /\ emitted' = <<>>
    /\ lastOp' = Op(kind, u, room, id)
    /\ UNCHANGED <<rooms, userRooms, sockRooms, connected, inbox, now>>

\* joinRoom(roomId); the hook connects first when needed, and a closed
\* transport is not reopened here
JoinRoom(u, r) ==
    /\ connected[u]
    /\ toRelay' = [toRelay EXCEPT ![u] =
                      emitNow(@, connected[u],
                              [type |-> "join-room", roomId |-> r, userId |-> u])]
    /\ client' = [client EXCEPT ![u].roomId = r, ![u].drawings = <<>>]
    /\ ClientStep("joinRoom", u, r, 0)
    /\ UNCHANGED <<currentRef, svc, nextId>>

LeaveRoom(u) ==
    /\ client[u].roomId # NoRoomId
    /\ toRelay' = [toRelay EXCEPT ![u] =
                      emitNow(@, connected[u],
                              [type |-> "leave-room", roomId |-> client[u].roomId,
                               userId |-> u])]
    /\ client' = [client EXCEPT ![u].roomId = NoRoomId, ![u].drawings = <<>>,
                                ![u].isDrawing = FALSE]
    /\ ClientStep("leaveRoom", u, client[u].roomId, 0)
    /\ UNCHANGED <<currentRef, svc, nextId>>

StartDrawing(u, point) ==
    /\ client[u].roomId # NoRoomId
    /\ nextId < MaxStrokes
    /\ nextId' = nextId + 1
    /\ LET drawingData == [id |-> nextId + 1, roomId |-> client[u].roomId,
                           userId |-> u, tool |-> client[u].currentTool,
                           color |-> client[u].currentColor,
                           points |-> <<point>>, timestamp |-> now]
           C == sendDrawingData([svc |-> svc[u], out |-> toRelay[u]],
                                connected[u], drawingData)
       IN  /\ currentRef' = [currentRef EXCEPT ![u] = drawingData]
           /\ client' = [client EXCEPT ![u].isDrawing = TRUE,
                                       ![u].drawings = Append(@, drawingData)]
           /\ svc' = [svc EXCEPT ![u] = C.svc]
           /\ toRelay' = [toRelay EXCEPT ![u] = C.out]
    /\ ClientStep("startDrawing", u, client[u].roomId, nextId + 1)

\* draw(point) for a sample that is kept; a sample nearer than MIN_DISTANCE
\* to the last point returns without any effect
Draw(u, point) ==
    /\ client[u].isDrawing
    /\ currentRef[u] # NoDrawing
    /\ client[u].roomId # NoRoomId
    /\ LET cur == currentRef[u]
           add == pointsToAdd(cur.points[Len(cur.points)], point)
           updatedDrawing == [cur EXCEPT !.points = @ \o add, !.timestamp = now]
           C == sendDrawingData([svc |-> svc[u], out |-> toRelay[u]],
                                connected[u], updatedDrawing)
       IN  /\ add # <<>>
           /\ Len(cur.points) + Len(add) <= MaxPoints
           /\ currentRef' = [currentRef EXCEPT ![u] = updatedDrawing]
           /\ client' = [client EXCEPT ![u].drawings =
                            Append(WithoutId(@, updatedDrawing.id), updatedDrawing)]
           /\ svc' = [svc EXCEPT ![u] = C.svc]
           /\ toRelay' = [toRelay EXCEPT ![u] = C.out]
    /\ ClientStep("draw", u, client[u].roomId, currentRef[u].id)
    /\ UNCHANGED nextId

\* variant: every two-endpoint tool resends the final version
resendsFinalOfShapes(tool) == tool \in ShapeTools

\* endDrawing: the final version is sent once more for the line tool
resendsFinal(tool) == tool = "line"

EndDrawing(u) ==
    /\ client[u].isDrawing
    /\ currentRef[u] # NoDrawing
    /\ client[u].roomId # NoRoomId
    /\ LET finalDrawing == currentRef[u]
           C0 == [svc |-> svc[u], out |-> toRelay[u]]
           C == IF resendsFinal(client[u].currentTool)
                THEN sendDrawingData(C0, connected[u], finalDrawing)
                ELSE C0
           newUserHistory == PushHistory(client[u].userHistory,
                                         client[u].userHistoryIndex, finalDrawing.id)
       IN  /\ client' = [client EXCEPT
                            ![u].isDrawing = FALSE,
                            ![u].userHistory =
                                IF finalDrawing.userId = u THEN newUserHistory ELSE @,
                            ![u].userHistoryIndex =
                                IF finalDrawing.userId = u
                                THEN Len(newUserHistory) - 1 ELSE @]
           /\ svc' = [svc EXCEPT ![u] = C.svc]
           /\ toRelay' = [toRelay EXCEPT ![u] = C.out]
    /\ currentRef' = [currentRef EXCEPT ![u] = NoDrawing]
    /\ ClientStep("endDrawing", u, client[u].roomId, currentRef[u].id)
    /\ UNCHANGED nextId

SetTool(u, tool) ==
    /\ client' = [client EXCEPT ![u].currentTool = tool, ![u].isDrawing = FALSE]
    /\ currentRef' = [currentRef EXCEPT ![u] = NoDrawing]
    /\ ClientStep("setTool", u, client[u].roomId, 0)
    /\ UNCHANGED <<toRelay, svc, nextId>>

\* clearCanvas(), confirmed in the dialog
ClearCanvas(u) ==
    /\ client[u].roomId # NoRoomId
    /\ toRelay' = [toRelay EXCEPT ![u] =
                      emitNow(@, connected[u],
                              [type |-> "clear-canvas", roomId |-> client[u].roomId])]
    /\ client' = [client EXCEPT ![u].drawings = <<>>, ![u].userHistory = <<>>,
                                ![u].userHistoryIndex = -1]
    /\ ClientStep("clearCanvas", u, client[u].roomId, 0)
    /\ UNCHANGED <<currentRef, svc, nextId>>

\* variant: the cursor stays where it was
UndoKeepingCursor(u) ==
    /\ client[u].userHistoryIndex >= 0
    /\ LET drawingIdToUndo == client[u].userHistory[client[u].userHistoryIndex + 1]
       IN  /\ toRelay' = [toRelay EXCEPT ![u] =
                  IF client[u].roomId # NoRoomId
                  THEN emitNow(@, connected[u],
                               [type |-> "undo-canvas", roomId |-> client[u].roomId,
                                userId |-> u, drawingId |-> drawingIdToUndo])
                  ELSE @]
           /\ client' = [client EXCEPT
                  ![u].drawings = MarkDeleted(@, drawingIdToUndo, u, TRUE)]
           /\ ClientStep("undo", u, client[u].roomId, drawingIdToUndo)
    /\ UNCHANGED <<currentRef, svc, nextId>>

\* variant: the stroke after the cursor is announced but stays deleted
RedoKeepingFlag(u) ==
    /\ client[u].userHistoryIndex < Len(client[u].userHistory) - 1
    /\ LET newIndex == client[u].userHistoryIndex + 1
           drawingIdToRedo == client[u].userHistory[newIndex + 1]
       IN  /\ toRelay' = [toRelay EXCEPT ![u] =
                  IF client[u].roomId # NoRoomId
                  THEN emitNow(@, connected[u],
                               [type |-> "redo-canvas", roomId |-> client[u].roomId,
                                userId |-> u, drawingId |-> drawingIdToRedo])
                  ELSE @]
           /\ client' = [client EXCEPT ![u].userHistoryIndex = newIndex]
           /\ ClientStep("redo", u, client[u].roomId, drawingIdToRedo)
    /\ UNCHANGED <<currentRef, svc, nextId>>

\* undo(): the stroke at userHistoryIndex is marked deleted and announced
Undo(u) ==
    /\ client[u].userHistoryIndex >= 0
    /\ LET drawingIdToUndo == client[u].userHistory[client[u].userHistoryIndex + 1]
       IN  /\ toRelay' = [toRelay EXCEPT ![u] =
                  IF client[u].roomId # NoRoomId
                  THEN emitNow(@, connected[u],
                               [type |-> "undo-canvas", roomId |-> client[u].roomId,
                                userId |-> u, drawingId |-> drawingIdToUndo])
                  ELSE @]
           /\ client' = [client EXCEPT ![u] = undoState(@, u)]
           /\ ClientStep("undo", u, client[u].roomId, drawingIdToUndo)
    /\ UNCHANGED <<currentRef, svc, nextId>>

\* redo(): the stroke after userHistoryIndex is restored and announced
Redo(u) ==
    /\ client[u].userHistoryIndex < Len(client[u].userHistory) - 1
    /\ LET newIndex == client[u].userHistoryIndex + 1
           drawingIdToRedo == client[u].userHistory[newIndex + 1]
       IN  /\ toRelay' = [toRelay EXCEPT ![u] =
                  IF client[u].roomId # NoRoomId
                  THEN emitNow(@, connected[u],
                               [type |-> "redo-canvas", roomId |-> client[u].roomId,
                                userId |-> u, drawingId |-> drawingIdToRedo])
                  ELSE @]
           /\ client' = [client EXCEPT ![u] = redoState(@, u)]
           /\ ClientStep("redo", u, client[u].roomId, drawingIdToRedo)
    /\ UNCHANGED <<currentRef, svc, nextId>>

\* the batch timer of sendDrawingData fires
\* handleMouseMove: the pointer moved; at most one call of the service every
\* CURSOR_THROTTLE_MS
HandleMouseMove(u, point) ==
    /\ client[u].roomId # NoRoomId
    /\ now - svc[u].lastCursorSentRef >= CURSOR_THROTTLE_MS
    /\ LET C == sendCursorPosition([svc |-> svc[u], out |-> toRelay[u]], connected[u],
                                   now, client[u].roomId, u, point)
       IN  /\ svc' = [svc EXCEPT ![u] = [C.svc EXCEPT !.lastCursorSentRef = now]]
           /\ toRelay' = [toRelay EXCEPT ![u] = C.out]
    /\ ClientStep("handleMouseMove", u, client[u].roomId, 0)
    /\ UNCHANGED <<client, currentRef, nextId>>

\* the callback of the cursor timer, once it is due
CursorBatchTimeout(u) ==
    /\ svc[u].cursorBatchTimeout # NoTimer
    /\ now >= svc[u].cursorBatchTimeout
    /\ LET C == flushCursorBuffer([svc |-> svc[u], out |-> toRelay[u]], connected[u], now)
       IN  /\ svc' = [svc EXCEPT ![u] = [C.svc EXCEPT !.cursorBatchTimeout = NoTimer]]
           /\ toRelay' = [toRelay EXCEPT ![u] = C.out]
    /\ emitted' = <<>>
    /\ lastOp' = Op("cursorBatchTimeout", u, "", 0)
    /\ UNCHANGED <<rooms, userRooms, sockRooms, connected, inbox, now, client,
                   currentRef, nextId, opsLeft>>

\* Date.now() advances; beyond the horizon only towards a timer that is not
\* yet due
Elapse(ms) ==
    /\ \/ now + ms <= CursorEpoch + MaxCursorMs
       \/ \E u \in Users : /\ svc[u].cursorBatchTimeout # NoTimer
                            /\ now < svc[u].cursorBatchTimeout
    /\ now' = now + ms
    /\ emitted' = <<>>
    /\ lastOp' = Op("elapse", "", "", 0)
    /\ UNCHANGED <<rooms, userRooms, sockRooms, connected, toRelay, inbox, client,
                   currentRef, svc, nextId, opsLeft>>

RelayUserCursor(u) ==
    /\ HeadIs(u, "user-cursor")
    /\ LET m == Head(toRelay[u])
       IN  /\ RelayCommit(onUserCursor(RelayState, u, m.roomId, m.userId, m.cursor))
           /\ lastOp' = Op("user-cursor", u, m.roomId, 0)
    /\ RelayHandled(u)

DrawingBatchTimeout(u) ==
    /\ svc[u].drawingBatchTimeout
    /\ LET C == flushDrawingBuffer([svc |-> svc[u], out |-> toRelay[u]], connected[u])
       IN  /\ svc' = [svc EXCEPT ![u] = [C.svc EXCEPT !.drawingBatchTimeout = FALSE]]
           /\ toRelay' = [toRelay EXCEPT ![u] = C.out]
    /\ emitted' = <<>>
    /\ lastOp' = Op("drawingBatchTimeout", u, "", 0)
    /\ UNCHANGED <<rooms, userRooms, sockRooms, connected, inbox, now, client,
                   currentRef, nextId, opsLeft>>

(***************************************************************************)
(* Steps of a client: the listeners for the relay's events                 *)
(***************************************************************************)
InboxIs(u, type) == inbox[u] # <<>> /\ Head(inbox[u]).type = type

Received(kind, u) ==
    /\ inbox' = [inbox EXCEPT ![u] = Tail(@)]
    /\ emitted' = <<>>
    /\ lastOp' = Op(kind, u, "", 0)
    /\ UNCHANGED <<rooms, userRooms, sockRooms, connected, toRelay, currentRef,
                   svc, now, nextId, opsLeft>>

OnDrawingData(u) ==
    /\ InboxIs(u, "drawing-data")
    /\ client' = [client EXCEPT ![u].drawings =
                     handleDrawingData(@, Head(inbox[u]).data)]
    /\ Received("handleDrawingData", u)

OnRoomJoined(u) ==
    /\ InboxIs(u, "room-joined")
    /\ client' = [client EXCEPT ![u].roomId = Head(inbox[u]).roomId]
    /\ Received("handleRoomJoined", u)

\* variant: a canvas-clear that empties the history and leaves the cursor
OnCanvasClearKeepingCursor(u) ==
    /\ InboxIs(u, "canvas-clear")
    /\ client' = [client EXCEPT ![u].drawings = <<>>, ![u].userHistory = <<>>]
    /\ Received("handleCanvasClear", u)

\* variant: only the drawings are emptied
OnCanvasClearKeepingHistory(u) ==
    /\ InboxIs(u, "canvas-clear")
    /\ client' = [client EXCEPT ![u].drawings = <<>>]
    /\ Received("handleCanvasClear", u)

OnCanvasClear(u) ==
    /\ InboxIs(u, "canvas-clear")
    /\ client' = [client EXCEPT ![u].drawings = <<>>, ![u].userHistory = <<>>,
                                ![u].userHistoryIndex = -1]
    /\ Received("handleCanvasClear", u)

\* variant: a remote undo is handled like the user's own
OnCanvasUndoAsOwn(u) ==
    /\ InboxIs(u, "canvas-undo")
    /\ LET m == Head(inbox[u])
       IN  client' = IF m.userId = u THEN client
                     ELSE [client EXCEPT
                              ![u].drawings = MarkDeleted(@, m.drawingId, m.userId, TRUE),
                              ![u].userHistoryIndex = IF @ >= 0 THEN @ - 1 ELSE @]
    /\ Received("handleRemoteUndo", u)

\* handleRemoteUndo: the user's own undo has been applied already
OnCanvasUndo(u) ==
    /\ InboxIs(u, "canvas-undo")
    /\ LET m == Head(inbox[u])
       IN  client' = IF m.userId = u THEN client
                     ELSE [client EXCEPT ![u].drawings =
                              MarkDeleted(@, m.drawingId, m.userId, TRUE)]
    /\ Received("handleRemoteUndo", u)

\* variant: a redo of the user's own is applied like a peer's
OnCanvasRedoOfAnyone(u) ==
    /\ InboxIs(u, "canvas-redo")
    /\ LET m == Head(inbox[u])
       IN  client' = [client EXCEPT ![u].drawings =
                         MarkDeleted(@, m.drawingId, m.userId, FALSE)]
    /\ Received("handleRemoteRedo", u)

\* handleRemoteRedo
OnCanvasRedo(u) ==
    /\ InboxIs(u, "canvas-redo")
    /\ LET m == Head(inbox[u])
       IN  client' = IF m.userId = u THEN client
                     ELSE [client EXCEPT ![u].drawings =
                              MarkDeleted(@, m.drawingId, m.userId, FALSE)]
    /\ Received("handleRemoteRedo", u)

\* room-error (an alert), user-joined and user-left (the presence map, which
\* no stroke or history operation reads) leave the modelled client state alone
OnPresence(u) ==
    /\ \/ InboxIs(u, "room-error")
       \/ InboxIs(u, "user-joined")
       \/ InboxIs(u, "user-left")
    /\ UNCHANGED client
    /\ Received("handlePresence", u)

Tick(n) ==
    /\ Counted
    /\ now + n * TickMs <= MaxTicks * TickMs
    /\ now' = now + n * TickMs
    /\ emitted' = <<>>
    /\ lastOp' = Op("tick", "", "", 0)
    /\ UNCHANGED <<rooms, userRooms, sockRooms, connected, toRelay, inbox, client,
                   currentRef, svc, nextId>>

\* the stroke id of an author after its first k points, as the author sends
\* it and the relay stores it
StrokeOf(a, id, k) ==
    [id |-> id, roomId |-> "r1", userId |-> a, tool |-> "brush",
     color |-> InitialClient.currentColor, points |-> SubSeq(Stream, 1, k),
     timestamp |-> id]

\* the drawing-data message the relay makes of the stroke's first k points:
\* the full record (base = 0), or the increment over its first base points
DrawingMessage(a, id, base, k) ==
    [type |-> "drawing-data",
     data |-> IF base = 0 THEN StrokeOf(a, id, k)
              ELSE IncrementalUpdate(StrokeOf(a, id, k), StrokeOf(a, id, base))]

\* socket.on("drawing-data", callback): the transport hands client u a
\* drawing-data message of an author's stroke, once or twice over, whatever
\* u holds for the stroke
ArriveDrawing(u, m, times) ==
    /\ Counted
    /\ inbox[u] = <<>>
    /\ inbox' = [inbox EXCEPT ![u] = [i \in 1..times |-> m]]
    /\ emitted' = <<>>
    /\ lastOp' = Op("arrive", u, "", m.data.id)
    /\ UNCHANGED <<rooms, userRooms, sockRooms, connected, toRelay, client,
                   currentRef, svc, now, nextId>>

\* socket.on("canvas-undo", callback): the transport hands client u the
\* undo of an author's stroke
\* a canvas-clear of some member of the room reaches client u
ArriveClear(u) ==
    /\ Counted
    /\ inbox[u] = <<>>
    /\ inbox' = [inbox EXCEPT ![u] = <<[type |-> "canvas-clear"]>>]
    /\ emitted' = <<>>
    /\ lastOp' = Op("arrive", u, "", 0)
    /\ UNCHANGED <<rooms, userRooms, sockRooms, connected, toRelay, client,
                   currentRef, svc, now, nextId>>

ArriveUndo(u, a, id) ==
    /\ Counted
    /\ inbox[u] = <<>>
    /\ inbox' = [inbox EXCEPT ![u] =
                    <<[type |-> "canvas-undo", userId |-> a, drawingId |-> id]>>]
    /\ emitted' = <<>>
    /\ lastOp' = Op("arrive", u, "", id)
    /\ UNCHANGED <<rooms, userRooms, sockRooms, connected, toRelay, client,
                   currentRef, svc, now, nextId>>

\* socket.on("canvas-redo", callback): the transport hands client u the
\* redo of an author's stroke
ArriveRedo(u, a, id) ==
    /\ Counted
    /\ inbox[u] = <<>>
    /\ inbox' = [inbox EXCEPT ![u] =
                    <<[type |-> "canvas-redo", userId |-> a, drawingId |-> id]>>]
    /\ emitted' = <<>>
    /\ lastOp' = Op("arrive", u, "", id)
    /\ UNCHANGED <<rooms, userRooms, sockRooms, connected, toRelay, client,
                   currentRef, svc, now, nextId>>

(***************************************************************************)
(* Specifications.  All start after construction and share the steps       *)
(* above; each lets the users make the calls its properties are about, a   *)
(* bounded number in a run.  The handlers of the relay and of the clients  *)
(* and the batch timer run whenever they have something to handle.         *)
(***************************************************************************)
Handlers ==
    \/ \E u \in Users : RelayJoinRoom(u)
    \/ \E u \in Users : RelayDrawingData(u)
    \/ \E u \in Users : DrawingBatchTimeout(u)
    \/ \E u \in Users : OnDrawingData(u)
    \/ \E u \in Users : OnRoomJoined(u)
    \/ \E u \in Users : OnPresence(u)

Drawing ==
    \/ \E u \in Authors, p \in StartPoints : StartDrawing(u, p)
    \/ \E u \in Authors, d \in Moves :
           Draw(u, currentRef[u].points[Len(currentRef[u].points)] + d)
    \/ \E u \in Authors : EndDrawing(u)

\* The stroke stream of one room: joins, strokes, tool changes and clears.
Next ==
    \/ CreateRoom("r1")
    \/ \E u \in Users : JoinRoom(u, "r1")
    \/ Drawing
    \/ \E u \in Authors, t \in ToolSet : SetTool(u, t)
    \/ \E u \in Users : ClearCanvas(u)
    \/ \E u \in Users : RelayClearCanvas(u)
    \/ \E u \in Users : OnCanvasClear(u)
    \/ Handlers

Spec == Init /\ [][Next]_vars

\* The stroke log over time: joins and strokes while the clock advances.
TtlNext ==
    \/ CreateRoom("r1")
    \/ \E u \in Users : JoinRoom(u, "r1")
    \/ Drawing
    \/ \E n \in TickSteps : Tick(n)
    \/ Handlers

TtlSpec == TtlInit /\ [][TtlNext]_vars

\* Presence: joins, leaves and disconnects over two rooms, no strokes.
RoomNext ==
    \/ \E r \in RoomIds : CreateRoom(r)
    \/ \E u \in Users, r \in RoomIds : JoinRoom(u, r)
    \/ \E u \in Users : LeaveRoom(u)
    \/ \E u \in Users : Disconnect(u)
    \/ \E u \in Users : RelayJoinRoom(u)
    \/ \E u \in Users : RelayLeaveRoom(u)
    \/ \E u \in Users : OnRoomJoined(u)
    \/ \E u \in Users : OnPresence(u)

RoomSpec == RoomInit /\ [][RoomNext]_vars

\* Undo and redo: joins, one-point strokes, and the author's undo and redo.
UndoNext ==
    \/ CreateRoom("r1")
    \/ \E u \in Users : JoinRoom(u, "r1")
    \/ \E u \in Authors, p \in StartPoints : StartDrawing(u, p)
    \/ \E u \in Authors : EndDrawing(u)
    \/ \E u \in Authors : Undo(u)
    \/ \E u \in Authors : Redo(u)
    \/ \E u \in Users : RelayUndoCanvas(u)
    \/ \E u \in Users : RelayRedoCanvas(u)
    \/ \E u \in Users : OnCanvasUndo(u)
    \/ \E u \in Users : OnCanvasRedo(u)
    \/ Handlers

UndoSpec == UndoInit /\ [][UndoNext]_vars

\* The reconciliation of handleDrawingData on its own: a peer is handed
\* drawing-data messages of the authors' strokes (full records and
\* increments over any base, in any order, possibly twice) and undos.
MergeNext ==
    \/ \E u \in Peers, a \in Authors, id \in StrokeIds, k \in 1..MaxPoints :
          \E base \in 0..(k - 1), times \in 1..2 :
             ArriveDrawing(u, DrawingMessage(a, id, base, k), times)
    \/ \E u \in Peers, a \in Authors, id \in StrokeIds : ArriveUndo(u, a, id)
    \/ \E u \in Users : OnDrawingData(u)
    \/ \E u \in Users : OnCanvasUndo(u)

MergeSpec == MergeInit /\ [][MergeNext]_vars

\* The per-user history: one author joins, leaves, draws one-point strokes,
\* undoes, redoes and clears, and its transport may close.
HistoryNext ==
    \/ CreateRoom("r1")
    \/ \E u \in Authors : JoinRoom(u, "r1")
    \/ \E u \in Authors : LeaveRoom(u)
    \/ \E u \in Authors, p \in StartPoints : StartDrawing(u, p)
    \/ \E u \in Authors : EndDrawing(u)
    \/ \E u \in Authors : Undo(u)
    \/ \E u \in Authors : Redo(u)
    \/ \E u \in Authors : ClearCanvas(u)
    \/ \E u \in Authors : Disconnect(u)
    \/ \E u \in Users : RelayLeaveRoom(u)
    \/ \E u \in Users : RelayClearCanvas(u)
    \/ \E u \in Users : RelayUndoCanvas(u)
    \/ \E u \in Users : RelayRedoCanvas(u)
    \/ \E u \in Users : OnCanvasClear(u)
    \/ \E u \in Users : OnCanvasUndo(u)
    \/ \E u \in Users : OnCanvasRedo(u)
    \/ Handlers

HistorySpec == HistoryInit /\ [][HistoryNext]_vars

\* A client with a history of its own among the strokes of others: the
\* author draws and undoes, and is handed full strokes of another user and
\* that user's undos and redos.
PeerNext ==
    \/ \E u \in Authors : JoinRoom(u, "r1")
    \/ \E u \in Authors, p \in StartPoints : StartDrawing(u, p)
    \/ \E u \in Authors : EndDrawing(u)
    \/ \E u \in Authors : Undo(u)
    \/ \E u \in Authors, a \in Peers, id \in RemoteIds, k \in 1..2 :
          ArriveDrawing(u, DrawingMessage(a, id, 0, k), 1)
    \/ \E u \in Authors, a \in Peers, id \in RemoteIds : ArriveUndo(u, a, id)
    \/ \E u \in Authors, a \in Peers, id \in RemoteIds : ArriveRedo(u, a, id)
    \/ \E u \in Users : OnDrawingData(u)
    \/ \E u \in Users : OnCanvasUndo(u)
    \/ \E u \in Users : OnCanvasRedo(u)

PeerSpec == PeerInit /\ [][PeerNext]_vars

\* One author draws with the shape tools and the brush; the service batches
\* and the relay stores.
ShapeInit == InitWith(MaxShapeOps)

ShapeNext ==
    \/ CreateRoom("r1")
    \/ \E u \in Authors : JoinRoom(u, "r1")
    \/ \E u \in Authors, t \in ShapeTools : SetTool(u, t)
    \/ Drawing
    \/ \E u \in Authors : Disconnect(u)
    \/ Handlers

ShapeSpec == ShapeInit /\ [][ShapeNext]_vars

\* One author draws while its service batches; the relay only consumes. The
\* batch timer of setTimeout fires once DRAWING_BATCH_MS have passed, so a
\* pending timer is never postponed forever.
BatchInit == InitWith(MaxBatchOps)

BatchNext ==
    \/ \E u \in Authors : JoinRoom(u, "r1")
    \/ Drawing
    \/ \E u \in Authors : Disconnect(u)
    \/ \E u \in Authors : DrawingBatchTimeout(u)
    \/ \E u \in Authors : RelayJoinRoom(u)
    \/ \E u \in Authors : RelayDrawingData(u)

BatchSpec ==
    BatchInit /\ [][BatchNext]_vars /\ \A u \in Authors : WF_vars(DrawingBatchTimeout(u))

\* One user moves the pointer over the canvas of a room. Time passes, and a
\* cursor timer that is due fires.
CursorInit ==
    /\ rooms = <<>>
    /\ userRooms = <<>>
    /\ sockRooms = [u \in Users |-> {}]
    /\ connected = [u \in Users |-> TRUE]
    /\ toRelay = [u \in Users |-> <<>>]
    /\ inbox = [u \in Users |-> <<>>]
    /\ client = [u \in Users |-> InitialClient]
    /\ currentRef = [u \in Users |-> NoDrawing]
    /\ svc = [u \in Users |-> InitialService]
    /\ now = CursorEpoch
    /\ nextId = 0
    /\ opsLeft = MaxCursorOps
    /\ emitted = <<>>
    /\ lastOp = Op("init", "", "", 0)

CursorNext ==
    \/ CreateRoom("r1")
    \/ \E u \in Authors : JoinRoom(u, "r1")
    \/ \E u \in Authors, p \in CursorPoints : HandleMouseMove(u, p)
    \/ \E u \in Authors : CursorBatchTimeout(u)
    \/ \E ms \in CursorWaits : Elapse(ms)
    \/ \E u \in Authors : Disconnect(u)
    \/ \E u \in Authors : RelayJoinRoom(u)
    \/ \E u \in Authors : RelayUserCursor(u)
    \/ \E u \in Users : OnRoomJoined(u)
    \/ \E u \in Users : OnPresence(u)

CursorSpec ==
    /\ CursorInit /\ [][CursorNext]_vars
    /\ \A u \in Authors : WF_vars(CursorBatchTimeout(u))
    /\ WF_vars(\E ms \in CursorWaits : Elapse(ms))

\* The history at its limit: the author of a session in progress draws
\* one-point strokes, undoes and redoes.
LimitNext ==
    \/ \E u \in Authors, p \in StartPoints : StartDrawing(u, p)
    \/ \E u \in Authors : EndDrawing(u)
    \/ \E u \in Authors : Undo(u)
    \/ \E u \in Authors : Redo(u)

LimitSpec == LimitInit /\ [][LimitNext]_vars

\* The same sessions with the two clears: the author's own and a member's,
\* whose canvas-clear arrives at any time.
IndexInit == LimitInit

IndexNext ==
    \/ LimitNext
    \/ \E u \in Authors : ClearCanvas(u)
    \/ \E u \in Authors : ArriveClear(u)
    \/ \E u \in Users : RelayClearCanvas(u)
    \/ \E u \in Users : OnCanvasClear(u)

IndexSpec == IndexInit /\ [][IndexNext]_vars

(***************************************************************************)
(* Properties.  A step of the relay is recognised by lastOp', the message  *)
(* it handles is the head of the sender's queue before the step, and       *)
(* emitted' lists what it sent.                                            *)
(***************************************************************************)
\* the relay handles a drawing-data message of u for a room that exists
Ingests(u) ==
    /\ HeadIs(u, "drawing-data")
    /\ lastOp'.kind = "drawing-data" /\ lastOp'.user = u
    /\ Head(toRelay[u]).data.roomId \in DOMAIN rooms

Incoming(u) == Head(toRelay[u]).data

LogOf(u) == rooms[Incoming(u).roomId].drawings

LogAfter(u) == rooms'[Incoming(u).roomId].drawings

\* the age of d at time t is below the TTL
Fresh(d, t) == t - d.timestamp < TTL_MS

Retained(ds, t) == SelectSeq(ds, LAMBDA d : Fresh(d, t))

\* the emissions of em addressed to v
SentTo(em, v) == SelectSeq(em, LAMBDA e : e.to = v)

OfType(em, type) == SelectSeq(em, LAMBDA e : e.msg.type = type)

RoomOthers(r, u) == rooms[r].users \ {u}

\* u has not reset its local drawings since the relay last answered it: it
\* is a member of the room it shows, none of its own joins, leaves or clears
\* is still to be handled by the relay, and no answer to one (room-joined,
\* room-error, canvas-clear) is still to be handled by u
InSync(u) ==
    /\ connected[u]
    /\ client[u].roomId \in DOMAIN rooms
    /\ u \in rooms[client[u].roomId].users
    /\ \A i \in 1..Len(toRelay[u]) :
          toRelay[u][i].type \notin {"join-room", "leave-room", "clear-canvas"}
    /\ \A i \in 1..Len(inbox[u]) :
          inbox[u][i].type \notin {"room-joined", "room-error", "canvas-clear"}

HeadIsIncrement(u) ==
    /\ InboxIs(u, "drawing-data")
    /\ Truthy(Head(inbox[u]).data, "isIncremental")

\* the number of points u holds for id, 0 when it holds no such stroke
Held(u, id) ==
    LET i == FindIndex(client[u].drawings, id)
    IN  IF i = 0 THEN 0 ELSE Len(client[u].drawings[i].points)

BaseMatches(u) ==
    HeadIsIncrement(u) =>
        Held(u, Head(inbox[u]).data.id) = Head(inbox[u]).data.basePointCount

\* C1: for a member that has not reset its local drawings since the relay
\* last answered it, every incremental message it is about to apply carries
\* a basePointCount equal to the number of points it holds for that stroke;
\* and once it has applied all the relay sent it, its points for every
\* stroke of another author in the relay's log equal the stored points.
C1_BaseMatchesHeldPoints ==
    \A u \in Users :
        InSync(u) =>
            /\ BaseMatches(u)
            /\ inbox[u] = <<>> =>
                 \A i \in 1..Len(rooms[client[u].roomId].drawings) :
                    LET d == rooms[client[u].roomId].drawings[i]
                        k == FindIndex(client[u].drawings, d.id)
                    IN  d.userId # u =>
                          k # 0 /\ client[u].drawings[k].points = d.points

\* a member that holds the first points of another author's stroke is about
\* to apply an increment of two or more points
C1_Witness ==
    \E u \in Users :
        /\ InSync(u)
        /\ HeadIsIncrement(u)
        /\ Head(inbox[u]).data.userId # u
        /\ Head(inbox[u]).data.basePointCount >= 1
        /\ Len(Head(inbox[u]).data.points) >= 2
        /\ Held(u, Head(inbox[u]).data.id) = Head(inbox[u]).data.basePointCount

\* C1 as stated: every incremental message a member of a room is about to
\* apply carries a basePointCount equal to the number of points it holds.
C1_AsStated ==
    \A u \in Users :
        (/\ connected[u]
         /\ client[u].roomId \in DOMAIN rooms
         /\ u \in rooms[client[u].roomId].users) => BaseMatches(u)

\* handleDrawingData applied to the messages ms in turn
RECURSIVE ApplyAll(_, _)
ApplyAll(drawings, ms) ==
    IF ms = <<>> THEN drawings
    ELSE ApplyAll(handleDrawingData(drawings, Head(ms).msg.data), Tail(ms))

\* id, points and style attributes of a stroke
Core(d) == [id |-> d.id, points |-> d.points, tool |-> d.tool, color |-> d.color]

Cores(ds) == {Core(ds[i]) : i \in 1..Len(ds)}

\* the drawing-data messages a join that has just succeeded sent the joiner
Replay == OfType(SentTo(emitted, lastOp.user), "drawing-data")

\* C2: a client that starts from no drawings and applies the messages
\* replayed by a successful join holds one stroke per stroke of the room's
\* log, with the same id, points and style attributes.
C2_ReplayConverges ==
    lastOp.kind = "join-ok" =>
        LET local == ApplyAll(<<>>, Replay)
            log == rooms[lastOp.room].drawings
        IN  /\ Len(local) = Len(log)
            /\ Cores(local) = Cores(log)

\* a join has just replayed a log of two strokes, one of them of several points
C2_Witness ==
    /\ lastOp.kind = "join-ok"
    /\ Len(Replay) = 2
    /\ \E i \in 1..Len(Replay) : Len(Replay[i].msg.data.points) >= 2

\* C3: ingesting a message whose id is stored and whose points are longer
\* than the stored ones replaces the stored record by the incoming one (as
\* the log stands before the sweep that ends the same ingest) and sends each
\* other member of the room, and nobody else, exactly one incremental
\* message: the incoming points from the previously stored length onward,
\* with basePointCount the previously stored length.
C3_LongerIsReplacedAndSuffixRelayed ==
    [][\A u \in Users :
          (Ingests(u) /\ FindIndex(LogOf(u), Incoming(u).id) # 0) =>
             LET data == Incoming(u)
                 i == FindIndex(LogOf(u), data.id)
                 stored == Len(LogOf(u)[i].points)
             IN  Len(data.points) > stored =>
                   /\ LogAfter(u) = Retained([LogOf(u) EXCEPT ![i] = data], now)
                   /\ \A v \in Users :
                        IF v \in RoomOthers(data.roomId, u)
                        THEN /\ Len(SentTo(emitted', v)) = 1
                             /\ LET m == SentTo(emitted', v)[1].msg
                                IN  /\ m.type = "drawing-data"
                                    /\ m.data.id = data.id
                                    /\ Truthy(m.data, "isIncremental")
                                    /\ m.data.basePointCount = stored
                                    /\ m.data.points = SliceFrom(data.points, stored)
                        ELSE SentTo(emitted', v) = <<>>]_vars

\* an ingest has just relayed an increment of at least two points on top of
\* at least one stored point
C3_Witness ==
    /\ lastOp.kind = "drawing-data"
    /\ emitted # <<>>
    /\ Truthy(emitted[1].msg.data, "isIncremental")
    /\ emitted[1].msg.data.basePointCount >= 1
    /\ Len(emitted[1].msg.data.points) >= 2
    /\ emitted[1].to # lastOp.user

\* C4: ingesting a message whose id is not in the room's log appends it to
\* the log as a new stroke (before the sweep that ends the same ingest) and
\* sends the unmodified full message once to every member of the room other
\* than the sender, and nothing to the sender.
C4_UnseenIsAppendedAndRelayedInFull ==
    [][\A u \in Users :
          (Ingests(u) /\ FindIndex(LogOf(u), Incoming(u).id) = 0) =>
             LET data == Incoming(u)
             IN  /\ LogAfter(u) = Retained(Append(LogOf(u), data), now)
                 /\ \A v \in Users :
                      IF v \in RoomOthers(data.roomId, u)
                      THEN SentTo(emitted', v) =
                              <<[to |-> v, msg |-> [type |-> "drawing-data",
                                                    data |-> data]]>>
                      ELSE SentTo(emitted', v) = <<>>]_vars

\* a new stroke has just been appended and relayed in full to the other member
C4_Witness ==
    /\ lastOp.kind = "drawing-data"
    /\ emitted # <<>>
    /\ ~Has(emitted[1].msg.data, "isIncremental")
    /\ emitted[1].to # lastOp.user
    /\ emitted[1].msg.data.id = lastOp.id
    /\ lastOp.room \in DOMAIN rooms
    /\ FindIndex(rooms[lastOp.room].drawings, lastOp.id) # 0

\* C5: ingesting a message whose id is stored and whose points are not
\* longer than the stored ones leaves the stored records as they are (up to
\* the sweep that ends the same ingest), sends nothing to anybody, no error
\* included, and closes no connection.
C5_NotLongerIsDropped ==
    [][\A u \in Users :
          (Ingests(u) /\ FindIndex(LogOf(u), Incoming(u).id) # 0) =>
             LET data == Incoming(u)
                 i == FindIndex(LogOf(u), data.id)
             IN  Len(data.points) <= Len(LogOf(u)[i].points) =>
                   /\ LogAfter(u) = Retained(LogOf(u), now)
                   /\ Fresh(LogOf(u)[i], now) =>
                        LogAfter(u)[FindIndex(LogAfter(u), data.id)] = LogOf(u)[i]
                   /\ emitted' = <<>>
                   /\ inbox' = inbox
                   /\ connected' = connected]_vars

\* a duplicate of a stored stroke has just been ingested while another
\* member was in the room, and nothing was sent
C5_Witness ==
    /\ lastOp.kind = "drawing-data"
    /\ lastOp.room \in DOMAIN rooms
    /\ rooms[lastOp.room].users \ {lastOp.user} # {}
    /\ FindIndex(rooms[lastOp.room].drawings, lastOp.id) # 0
    /\ emitted = <<>>

C7_ReplayIsTheStoredLog ==
    lastOp.kind = "join-ok" =>
        LET log == rooms[lastOp.room].drawings
        IN  /\ Len(Replay) = Len(log)
            /\ \A i \in 1..Len(log) :
                  /\ Replay[i].msg.data = log[i]
                  /\ ~Has(Replay[i].msg.data, "isIncremental")

\* a join has just replayed a stroke older than the TTL
C7_Witness ==
    /\ lastOp.kind = "join-ok"
    /\ \E i \in 1..Len(Replay) : now - Replay[i].msg.data.timestamp > TTL_MS

\* C7 as stated: a successful join sends the joiner every stored stroke
\* that is not older than the TTL and no stroke that is older, each as a full
\* message carrying the stored points.
C7_AsStated ==
    lastOp.kind = "join-ok" =>
        LET log == rooms[lastOp.room].drawings
            live == SelectSeq(log, LAMBDA d : now - d.timestamp <= TTL_MS)
        IN  /\ Len(Replay) = Len(live)
            /\ \A i \in 1..Len(live) :
                  /\ Replay[i].msg.data.id = live[i].id
                  /\ Replay[i].msg.data.points = live[i].points
                  /\ ~Truthy(Replay[i].msg.data, "isIncremental")

\* C8: what a successful join sends, the user-left of an eviction apart, is
\* in this order: room-joined to the joiner with the room's members, the
\* joiner among them; one full message per stored stroke to the joiner; and
\* only then user-joined, once to each member already present and not to the
\* joiner.
C8_JoinOrder ==
    lastOp.kind = "join-ok" =>
        LET j == lastOp.user
            room == rooms[lastOp.room]
            em == SelectSeq(emitted, LAMBDA e : e.msg.type # "user-left")
            n == Len(room.drawings)
            present == SelectSeq(UserOrder, LAMBDA v : v \in room.users \ {j})
        IN  /\ j \in room.users
            /\ Len(em) = 1 + n + Len(present)
            /\ em[1] = [to |-> j, msg |-> [type |-> "room-joined", roomId |-> room.id,
                                           users |-> room.users]]
            /\ \A i \in 1..n :
                  em[1 + i] = [to |-> j, msg |-> [type |-> "drawing-data",
                                                  data |-> room.drawings[i]]]
            /\ \A i \in 1..Len(present) :
                  em[1 + n + i] = [to |-> present[i],
                                   msg |-> [type |-> "user-joined", user |-> j]]

\* a join into a room with a stored stroke and a member already present
C8_Witness ==
    /\ lastOp.kind = "join-ok"
    /\ rooms[lastOp.room].drawings # <<>>
    /\ rooms[lastOp.room].users \ {lastOp.user} # {}
    /\ OfType(emitted, "user-joined") # <<>>

\* the relay handles a join-room of u for a room that does not exist
JoinsAbsent(u) ==
    /\ HeadIs(u, "join-room")
    /\ lastOp'.kind \in {"join-ok", "join-error"} /\ lastOp'.user = u
    /\ Head(toRelay[u]).roomId \notin DOMAIN rooms

\* C9: a join-room for a room that does not exist fails: it sends one
\* room-error, to the caller; it sends no room-joined, no stroke replay and
\* no user-joined; it creates no room; afterwards the user is registered in
\* no room; and every connection stays as it was.
C9_JoinOfAbsentRoomFails ==
    [][\A u \in Users :
          JoinsAbsent(u) =>
             /\ lastOp'.kind = "join-error"
             /\ OfType(emitted', "room-error") =
                   <<[to |-> u, msg |-> [type |-> "room-error"]]>>
             /\ OfType(emitted', "room-joined") = <<>>
             /\ OfType(emitted', "drawing-data") = <<>>
             /\ OfType(emitted', "user-joined") = <<>>
             /\ DOMAIN rooms' \subseteq DOMAIN rooms
             /\ \A r \in DOMAIN rooms' : u \notin rooms'[r].users
             /\ u \notin DOMAIN userRooms'
             /\ sockRooms'[u] = {}
             /\ connected' = connected]_vars

\* a join of a room that does not exist has just failed, the caller is
\* still connected and room-error is on its way to it
C9_Witness ==
    /\ lastOp.kind = "join-error"
    /\ lastOp.room \notin DOMAIN rooms
    /\ connected[lastOp.user]
    /\ OfType(emitted, "room-error") # <<>>
    /\ inbox[lastOp.user] # <<>>
    /\ inbox[lastOp.user][Len(inbox[lastOp.user])].type = "room-error"

\* C10: a join-room that fails because the room does not exist leaves the
\* user's membership of the room it had joined before, that room and its
\* member list as they were, and sends no user-left.
C10_FailedJoinKeepsPreviousRoom ==
    [][\A u \in Users :
          (JoinsAbsent(u) /\ u \in DOMAIN userRooms) =>
             LET prev == userRooms[u]
             IN  /\ u \in DOMAIN userRooms'
                 /\ userRooms'[u] = prev
                 /\ prev \in DOMAIN rooms'
                 /\ rooms'[prev].users = rooms[prev].users
                 /\ OfType(emitted', "user-left") = <<>>]_vars

\* the rooms whose users map lists u
RoomsOf(u) == {r \in DOMAIN rooms : u \in rooms[r].users}

\* C11: in every state of the relay each user id is in the users map of at
\* most one room.
C11_AtMostOneRoomPerUser ==
    \A u \in Users : Cardinality(RoomsOf(u)) <= 1

\* a user has just joined a room after being evicted from another one, whose
\* remaining member was told
C11_Witness ==
    /\ lastOp.kind = "join-ok"
    /\ RoomsOf(lastOp.user) = {lastOp.room}
    /\ \E i \in 1..Len(emitted) :
          /\ emitted[i].msg.type = "user-left"
          /\ emitted[i].msg.userId = lastOp.user
          /\ RoomsOf(emitted[i].to) # {}
          /\ RoomsOf(emitted[i].to) # {lastOp.room}

\* the relay handles a leave-room of u
Leaves(u) ==
    /\ HeadIs(u, "leave-room")
    /\ lastOp'.kind = "leave-room" /\ lastOp'.user = u

RelayUnchanged ==
    /\ rooms' = rooms
    /\ userRooms' = userRooms
    /\ sockRooms' = sockRooms
    /\ emitted' = <<>>

\* leaveRoom run a second time on the state S it has left
LeftAgain(S, u, r) == leaveRoom([S EXCEPT !.em = <<>>], u, r, u)

\* C12: leave-room of a member removes it from the room's users; a room left
\* without users is deleted in the same step and nobody is sent anything,
\* otherwise each remaining member, and nobody else, is sent one user-left
\* naming the user; the other rooms stay as they were.  A leave-room for a
\* room the user is not in, or that does not exist, changes no relay state
\* and sends nothing, and so does leaveRoom run again after it has run.
C12_LeaveRoom ==
    [][\A u \in Users :
          /\ \A r \in RoomIds :
                LET S1 == leaveRoom(RelayState, u, r, u)
                    S2 == LeftAgain(S1, u, r)
                IN  S2 = [S1 EXCEPT !.em = <<>>]
          /\ Leaves(u) =>
                LET r == Head(toRelay[u]).roomId
                    w == Head(toRelay[u]).userId
                IN  IF r \in DOMAIN rooms /\ w \in rooms[r].users
                    THEN /\ w \notin DOMAIN userRooms'
                         /\ \A q \in DOMAIN rooms \ {r} :
                               q \in DOMAIN rooms' /\ rooms'[q] = rooms[q]
                         /\ IF rooms[r].users = {w}
                            THEN r \notin DOMAIN rooms' /\ emitted' = <<>>
                            ELSE /\ r \in DOMAIN rooms'
                                 /\ rooms'[r] = [rooms[r] EXCEPT !.users = @ \ {w}]
                                 /\ \A v \in Users :
                                      SentTo(emitted', v) =
                                         IF v \in rooms[r].users \ {w}
                                         THEN <<[to |-> v,
                                                 msg |-> [type |-> "user-left",
                                                          userId |-> w]]>>
                                         ELSE <<>>
                    ELSE RelayUnchanged]_vars

\* a member has just left a room in which another member remains and was told
C12_Witness ==
    /\ lastOp.kind = "leave-room"
    /\ lastOp.room \in DOMAIN rooms
    /\ lastOp.user \notin rooms[lastOp.room].users
    /\ rooms[lastOp.room].users # {}
    /\ emitted # <<>>
    /\ emitted[1].msg = [type |-> "user-left", userId |-> lastOp.user]
    /\ emitted[1].to \in rooms[lastOp.room].users

\* the transport of u, a member of a room, closes
DisconnectsMember(u) ==
    /\ connected[u]
    /\ lastOp'.kind = "disconnect" /\ lastOp'.user = u
    /\ RoomsOf(u) # {}

\* C13: when the transport of a member u of room r closes, the relay's
\* rooms, its userRooms and its emissions are those of leave-room(r, u):
\* afterwards u is in no room's users, each member remaining in r, and nobody
\* else, has been sent one user-left naming u, and r no longer exists if u
\* was its last member.
C13_DisconnectIsLeave ==
    [][\A u \in Users :
          DisconnectsMember(u) =>
             LET r == CHOOSE q \in RoomsOf(u) : TRUE
                 L == leaveRoom(RelayState, u, r, u)
                 rest == rooms[r].users \ {u}
             IN  /\ rooms' = L.rooms
                 /\ userRooms' = L.userRooms
                 /\ emitted' = L.em
                 /\ \A q \in DOMAIN rooms' : u \notin rooms'[q].users
                 /\ u \notin DOMAIN userRooms'
                 /\ sockRooms'[u] = {}
                 /\ (rest = {}) <=> (r \notin DOMAIN rooms')
                 /\ rest # {} => rooms'[r].users = rest
                 /\ \A v \in Users :
                      SentTo(emitted', v) =
                         IF v \in rest
                         THEN <<[to |-> v, msg |-> [type |-> "user-left",
                                                    userId |-> u]]>>
                         ELSE <<>>]_vars

\* the transport of a member has just closed and the member that remains in
\* its room has been sent user-left
C13_Witness ==
    /\ lastOp.kind = "disconnect"
    /\ ~connected[lastOp.user]
    /\ emitted # <<>>
    /\ emitted[1].msg = [type |-> "user-left", userId |-> lastOp.user]
    /\ RoomsOf(emitted[1].to) # {}
    /\ inbox[emitted[1].to] # <<>>

\* the relay handles a clear-canvas of u for a room that exists
Clears(u) ==
    /\ HeadIs(u, "clear-canvas")
    /\ lastOp'.kind = "clear-canvas" /\ lastOp'.user = u
    /\ Head(toRelay[u]).roomId \in DOMAIN rooms

\* C14: clear-canvas on an existing room leaves the room's log empty and its
\* users as they were, and sends one canvas-clear to every member of the
\* room, the sender included, and to nobody else; an empty log stays empty
\* until a drawing-data is ingested; and a join into a room whose log is
\* empty replays no stroke.
C14_ClearEmptiesTheLog ==
    [][/\ \A u \in Users :
            Clears(u) =>
               LET r == Head(toRelay[u]).roomId
               IN  /\ rooms'[r] = [rooms[r] EXCEPT !.drawings = <<>>]
                   /\ \A v \in Users :
                        SentTo(emitted', v) =
                           IF v \in rooms[r].users
                           THEN <<[to |-> v, msg |-> [type |-> "canvas-clear"]]>>
                           ELSE <<>>
       /\ \A r \in DOMAIN rooms \cap DOMAIN rooms' :
            (rooms[r].drawings = <<>> /\ lastOp'.kind # "drawing-data")
               => rooms'[r].drawings = <<>>
       /\ (lastOp'.kind = "join-ok" /\ rooms'[lastOp'.room].drawings = <<>>)
            => OfType(emitted', "drawing-data") = <<>>]_vars

\* a join has just been answered without any stroke while the author, a
\* member whose stroke the relay had stored, still has the canvas-clear of
\* the other member to handle
C14_Witness ==
    /\ lastOp.kind = "join-ok"
    /\ rooms[lastOp.room].drawings = <<>>
    /\ OfType(emitted, "drawing-data") = <<>>
    /\ \E v \in rooms[lastOp.room].users \ {lastOp.user} :
          /\ client[v].drawings # <<>>
          /\ toRelay[v] = <<>>
          /\ svc[v].drawingBuffer = <<>>
          /\ \E i \in 1..Len(inbox[v]) : inbox[v][i].type = "canvas-clear"

\* the relay handles an undo-canvas or a redo-canvas of u
Passes(u) ==
    /\ HeadIs(u, "undo-canvas") \/ HeadIs(u, "redo-canvas")
    /\ lastOp'.kind \in {"undo-canvas", "redo-canvas"} /\ lastOp'.user = u

PassedOn(m) ==
    [type |-> IF m.type = "undo-canvas" THEN "canvas-undo" ELSE "canvas-redo",
     userId |-> m.userId, drawingId |-> m.drawingId]

\* C15: handling undo-canvas or redo-canvas changes nothing the relay
\* stores (stroke logs, users maps, room membership); when the room exists
\* and the message's userId is in its users map, every member of the room,
\* the sender included, is sent one canvas-undo / canvas-redo carrying the
\* same (userId, drawingId); otherwise nothing is emitted.
C15_PassThrough ==
    [][\A u \in Users :
          Passes(u) =>
             LET m == Head(toRelay[u])
             IN  /\ UNCHANGED <<rooms, userRooms, sockRooms>>
                 /\ \A v \in Users :
                      SentTo(emitted', v) =
                         IF /\ m.roomId \in DOMAIN rooms
                            /\ m.userId \in rooms[m.roomId].users
                            /\ v \in rooms[m.roomId].users
                         THEN <<[to |-> v, msg |-> PassedOn(m)]>>
                         ELSE <<>>]_vars

\* an undo-canvas was passed on to both members of a room that stores the
\* undone stroke
C15_Witness ==
    /\ lastOp.kind = "undo-canvas"
    /\ lastOp.room \in DOMAIN rooms
    /\ rooms[lastOp.room].users = Users
    /\ \A v \in Users : SentTo(emitted, v) # <<>>
    /\ \E i \in 1..Len(rooms[lastOp.room].drawings) :
          rooms[lastOp.room].drawings[i].id = lastOp.id

\* C15 as stated: the broadcast reaches the room's members whoever sent it
C15_AsStated ==
    [][\A u \in Users :
          Passes(u) =>
             LET m == Head(toRelay[u])
             IN  /\ UNCHANGED <<rooms, userRooms, sockRooms>>
                 /\ \A v \in Users :
                      SentTo(emitted', v) =
                         IF /\ m.roomId \in DOMAIN rooms
                            /\ v \in rooms[m.roomId].users
                         THEN <<[to |-> v, msg |-> PassedOn(m)]>>
                         ELSE <<>>]_vars

\* v handles a canvas-undo of another user for a stroke it holds
UndoArrives(v) ==
    /\ InboxIs(v, "canvas-undo")
    /\ lastOp'.kind = "handleRemoteUndo" /\ lastOp'.user = v
    /\ Head(inbox[v]).userId # v
    /\ Held(v, Head(inbox[v]).drawingId) > 0

\* C16: a member that holds a stroke and handles the canvas-undo of the
\* stroke's author for it holds the stroke marked deleted afterwards, with
\* all its other fields as before and its other strokes untouched; and a
\* successful join, whatever undo the relay has passed on before, sends the
\* joiner every stored stroke as a full message that carries the stored
\* record and is not marked deleted.
C16_UndoMarksPeersNotTheLog ==
    [][/\ \A v \in Users :
            UndoArrives(v) =>
               LET m == Head(inbox[v])
                   old == client[v].drawings
                   new == client'[v].drawings
               IN  /\ Len(new) = Len(old)
                   /\ \A i \in 1..Len(old) :
                         IF old[i].id = m.drawingId
                         THEN new[i] = Spread(old[i], [isDeleted |-> TRUE])
                         ELSE new[i] = old[i]
       /\ lastOp'.kind = "join-ok" =>
             LET log == rooms'[lastOp'.room].drawings
                 sent == OfType(SentTo(emitted', lastOp'.user), "drawing-data")
             IN  /\ Len(sent) = Len(log)
                 /\ \A i \in 1..Len(log) :
                       /\ sent[i].msg.data = log[i]
                       /\ ~Has(sent[i].msg.data, "isIncremental")
                       /\ ~Truthy(sent[i].msg.data, "isDeleted")]_vars

\* a join has just replayed, in full and unmarked, a stroke that a member
\* other than its author holds marked deleted
C16_Witness ==
    /\ lastOp.kind = "join-ok"
    /\ \E i \in 1..Len(Replay) :
          LET d == Replay[i].msg.data
          IN  /\ ~Truthy(d, "isDeleted")
              /\ \E b \in Users \ {lastOp.user, d.userId} :
                    \E j \in 1..Len(client[b].drawings) :
                       /\ client[b].drawings[j].id = d.id
                       /\ Truthy(client[b].drawings[j], "isDeleted")

\* u applies the drawing-data message at the head of its inbox
Applies(u) ==
    /\ InboxIs(u, "drawing-data")
    /\ lastOp'.kind = "handleDrawingData" /\ lastOp'.user = u

StrokesWithId(ds, id) == {i \in 1..Len(ds) : ds[i].id = id}

\* C17: when a client applies a full drawing-data message, it holds exactly
\* one record of the message's id afterwards; if it held a record of that id
\* marked deleted, the new record has the message's points and is still
\* marked deleted; and if it held no record of that id, the new record is
\* the message's data as it came.
C17_FullMessageKeepsDeleted ==
    [][\A u \in Users :
          (Applies(u) /\ ~HeadIsIncrement(u)) =>
             LET data == Head(inbox[u]).data
                 old == client[u].drawings
                 new == client'[u].drawings
                 i == FindIndex(old, data.id)
                 j == FindIndex(new, data.id)
             IN  /\ Cardinality(StrokesWithId(new, data.id)) = 1
                 /\ (i # 0 /\ Truthy(old[i], "isDeleted")) =>
                       /\ new[j].points = data.points
                       /\ Truthy(new[j], "isDeleted")
                 /\ i = 0 => new[j] = data]_vars

\* a client has just applied the first of two copies of a full message of
\* several points to a record that was marked deleted
C17_Witness ==
    /\ lastOp.kind = "handleDrawingData"
    /\ InboxIs(lastOp.user, "drawing-data") /\ ~HeadIsIncrement(lastOp.user)
    /\ LET data == Head(inbox[lastOp.user]).data
           j == FindIndex(client[lastOp.user].drawings, data.id)
       IN  /\ j # 0
           /\ Truthy(client[lastOp.user].drawings[j], "isDeleted")
           /\ client[lastOp.user].drawings[j].points = data.points
           /\ Len(data.points) > 1

\* the points of the record of id in ds, which holds one
PointsOf(ds, id) == ds[FindIndex(ds, id)].points

\* u holds a record of a stroke and is about to apply the same increment
\* for it twice in a row
SameIncrementTwice(u) ==
    /\ HeadIsIncrement(u)
    /\ Len(inbox[u]) = 2 /\ inbox[u][2] = inbox[u][1]
    /\ Held(u, Head(inbox[u]).data.id) > 0

\* C18: when a client that holds a record of a stroke applies the same
\* incremental message for it twice in a row, the record's points after the
\* second application are its points after the first.
C18_IncrementIsIdempotent ==
    \A u \in Users :
       SameIncrementTwice(u) =>
          LET data == Head(inbox[u]).data
              once == handleDrawingData(client[u].drawings, data)
              twice == handleDrawingData(once, data)
          IN  PointsOf(twice, data.id) = PointsOf(once, data.id)

IsPrefix(p, q) == Len(p) <= Len(q) /\ SubSeq(q, 1, Len(p)) = p

\* u holds a record of a stroke and applies an increment for it whose
\* basePointCount is not the number of points the record holds
MismatchApplied(u) ==
    /\ Applies(u) /\ HeadIsIncrement(u)
    /\ Held(u, Head(inbox[u]).data.id) > 0
    /\ Held(u, Head(inbox[u]).data.id) # Head(inbox[u]).data.basePointCount

\* C19: when a client that holds a record of a stroke applies an incremental
\* message whose basePointCount differs from the number of points the record
\* holds, the record's points afterwards are either its points before or a
\* prefix of the points the author's stroke has accumulated: no gap, no
\* dropped or misplaced point.
C19_MismatchNeverCorrupts ==
    [][\A u \in Users :
          MismatchApplied(u) =>
             LET id == Head(inbox[u]).data.id
                 old == PointsOf(client[u].drawings, id)
                 new == PointsOf(client'[u].drawings, id)
             IN  new = old \/ IsPrefix(new, Stream)]_vars

\* C20: when a client that holds a record of a stroke applies a drawing-data
\* message for it, full or incremental, the record holds at least as many
\* points afterwards as before.
C20_PointsNeverShrink ==
    [][\A u \in Users :
          (Applies(u) /\ Held(u, Head(inbox[u]).data.id) > 0) =>
             LET id == Head(inbox[u]).data.id
             IN  Len(PointsOf(client'[u].drawings, id)) >= Held(u, id)]_vars

\* u calls undo() / redo() and the call has an effect
Undoes(u) == lastOp'.kind = "undo" /\ lastOp'.user = u

Redoes(u) == lastOp'.kind = "redo" /\ lastOp'.user = u

\* the drawings ds with the flag of the strokes of id set to deleted
Flagged(ds, id, deleted) ==
    [k \in 1..Len(ds) |->
        IF ds[k].id = id THEN Spread(ds[k], [isDeleted |-> deleted]) ELSE ds[k]]

\* what the relay, the other clients and the local stroke in progress see
\* of a call of u that only touches u's drawings, cursor and outbox
OnlyLocal(u) ==
    /\ UNCHANGED <<rooms, userRooms, sockRooms, connected, inbox, currentRef, svc>>
    /\ \A v \in Users \ {u} : client'[v] = client[v] /\ toRelay'[v] = toRelay[v]

\* the client shows a room and its socket is connected
CanEmit(u) == client[u].roomId # NoRoomId /\ connected[u]

\* C21: undo() has an effect only with the cursor i >= 0; it then leaves the
\* history as it was, sets the cursor to i - 1, marks the stroke history[i]
\* deleted where the client holds it and changes no other stroke; it sends
\* one undo-canvas carrying (room, userId, history[i]) when the client shows
\* a room and its socket is connected, and nothing otherwise.
C21_Undo ==
    [][\A u \in Users :
          Undoes(u) =>
             LET i == client[u].userHistoryIndex
                 id == client[u].userHistory[i + 1]
             IN  /\ i >= 0
                 /\ client'[u] = [client[u] EXCEPT
                                     !.drawings = Flagged(@, id, TRUE),
                                     !.userHistoryIndex = i - 1]
                 /\ toRelay'[u] =
                       IF CanEmit(u)
                       THEN Append(toRelay[u],
                                   [type |-> "undo-canvas", roomId |-> client[u].roomId,
                                    userId |-> u, drawingId |-> id])
                       ELSE toRelay[u]
                 /\ OnlyLocal(u)]_vars

\* an undo has just marked a stroke the client holds and sent its event
C21_Witness ==
    /\ lastOp.kind = "undo"
    /\ LET u == lastOp.user
           k == FindIndex(client[u].drawings, lastOp.id)
       IN  /\ k # 0 /\ Truthy(client[u].drawings[k], "isDeleted")
           /\ toRelay[u] # <<>>
           /\ toRelay[u][Len(toRelay[u])] =
                 [type |-> "undo-canvas", roomId |-> client[u].roomId,
                  userId |-> u, drawingId |-> lastOp.id]
           /\ client[u].userHistory[client[u].userHistoryIndex + 2] = lastOp.id

\* C21 as stated: every undo() with i >= 0 marks the stroke and sends one
\* undo event
C21_AsStated ==
    [][\A u \in Users :
          Undoes(u) =>
             LET i == client[u].userHistoryIndex
                 id == client[u].userHistory[i + 1]
             IN  /\ i >= 0
                 /\ client'[u].userHistory = client[u].userHistory
                 /\ client'[u].userHistoryIndex = i - 1
                 /\ client'[u].drawings = Flagged(client[u].drawings, id, TRUE)
                 /\ toRelay'[u] =
                       Append(toRelay[u],
                              [type |-> "undo-canvas", roomId |-> client[u].roomId,
                               userId |-> u, drawingId |-> id])]_vars

\* C22: redo() has an effect only with the cursor i < history.length - 1; it
\* then leaves the history as it was, sets the cursor to i + 1, sets
\* isDeleted = false on the stroke history[i + 1] where the client holds it
\* and changes no other stroke; it sends one redo-canvas carrying (room,
\* userId, history[i + 1]) when the client shows a room and its socket is
\* connected, and nothing otherwise.
C22_Redo ==
    [][\A u \in Users :
          Redoes(u) =>
             LET i == client[u].userHistoryIndex
                 id == client[u].userHistory[i + 2]
             IN  /\ i < Len(client[u].userHistory) - 1
                 /\ client'[u] = [client[u] EXCEPT
                                     !.drawings = Flagged(@, id, FALSE),
                                     !.userHistoryIndex = i + 1]
                 /\ toRelay'[u] =
                       IF CanEmit(u)
                       THEN Append(toRelay[u],
                                   [type |-> "redo-canvas", roomId |-> client[u].roomId,
                                    userId |-> u, drawingId |-> id])
                       ELSE toRelay[u]
                 /\ OnlyLocal(u)]_vars

\* a redo has just restored a stroke the client holds and sent its event
C22_Witness ==
    /\ lastOp.kind = "redo"
    /\ LET u == lastOp.user
           k == FindIndex(client[u].drawings, lastOp.id)
       IN  /\ k # 0
           /\ Has(client[u].drawings[k], "isDeleted")
           /\ ~client[u].drawings[k].isDeleted
           /\ toRelay[u] # <<>>
           /\ toRelay[u][Len(toRelay[u])] =
                 [type |-> "redo-canvas", roomId |-> client[u].roomId,
                  userId |-> u, drawingId |-> lastOp.id]
           /\ client[u].userHistory[client[u].userHistoryIndex + 1] = lastOp.id

\* C22 as stated: every redo() with i < history.length - 1 restores the
\* stroke and sends one redo event
C22_AsStated ==
    [][\A u \in Users :
          Redoes(u) =>
             LET i == client[u].userHistoryIndex
                 id == client[u].userHistory[i + 2]
             IN  /\ i < Len(client[u].userHistory) - 1
                 /\ client'[u].userHistory = client[u].userHistory
                 /\ client'[u].userHistoryIndex = i + 1
                 /\ client'[u].drawings = Flagged(client[u].drawings, id, FALSE)
                 /\ toRelay'[u] =
                       Append(toRelay[u],
                              [type |-> "redo-canvas", roomId |-> client[u].roomId,
                               userId |-> u, drawingId |-> id])]_vars

\* d without its isDeleted flag
Unflagged(d) == [k \in DOMAIN d \ {"isDeleted"} |-> d[k]]

\* C23: from any client state with cursor i >= 0, undo() followed at once by
\* redo() leaves the history and the cursor as they were and the stroke
\* history[i], where the client holds it, with isDeleted = false; every
\* stroke keeps its place and all its fields other than that flag.
C23_UndoRedoRoundTrip ==
    \A u \in Users :
       client[u].userHistoryIndex >= 0 =>
          LET prev == client[u]
              id == prev.userHistory[prev.userHistoryIndex + 1]
              undone == undoState(prev, u)
              back == redoState(undone, u)
          IN  /\ undone.userHistoryIndex = prev.userHistoryIndex - 1
              /\ \A k \in 1..Len(undone.drawings) :
                    undone.drawings[k].id = id => Truthy(undone.drawings[k], "isDeleted")
              /\ back.userHistory = prev.userHistory
              /\ back.userHistoryIndex = prev.userHistoryIndex
              /\ Len(back.drawings) = Len(prev.drawings)
              /\ \A k \in 1..Len(prev.drawings) :
                    /\ Unflagged(back.drawings[k]) = Unflagged(prev.drawings[k])
                    /\ IF prev.drawings[k].id = id
                       THEN Has(back.drawings[k], "isDeleted")
                            /\ ~back.drawings[k].isDeleted
                       ELSE back.drawings[k] = prev.drawings[k]
              /\ [back EXCEPT !.drawings = prev.drawings] = prev

\* a redo has just restored the stroke an undo had marked, the client holds
\* it, and another round trip from here changes nothing
C23_Witness ==
    /\ lastOp.kind = "redo"
    /\ LET u == lastOp.user
           k == FindIndex(client[u].drawings, lastOp.id)
       IN  /\ client[u].userHistoryIndex >= 0
           /\ k # 0 /\ Has(client[u].drawings[k], "isDeleted")
           /\ redoState(undoState(client[u], u), u) = client[u]
           /\ undoState(client[u], u) # client[u]

\* u completes the stroke in progress
Completes(u) == lastOp'.kind = "endDrawing" /\ lastOp'.user = u

Range(seq) == {seq[k] : k \in 1..Len(seq)}

\* C24: when a stroke is completed while the cursor i is before the end of
\* the history, the new history is history[0..i] followed by the new id, the
\* cursor points at the new id, none of the strokes undone before is in the
\* history any more, and redo() has no effect.
C24_NewStrokeDropsRedoFuture ==
    [][\A u \in Users :
          (Completes(u) /\ client[u].userHistoryIndex < Len(client[u].userHistory) - 1) =>
             LET h == client[u].userHistory
                 i == client[u].userHistoryIndex
                 id == currentRef[u].id
                 h2 == client'[u].userHistory
                 i2 == client'[u].userHistoryIndex
             IN  /\ h2 = SubSeq(h, 1, i + 1) \o <<id>>
                 /\ i2 = i + 1
                 /\ h2[i2 + 1] = id
                 /\ Range(SubSeq(h, i + 2, Len(h))) \cap Range(h2) = {}
                 /\ redoState(client'[u], u) = client'[u]]_vars

\* a stroke has just been completed after two undos in a history of three:
\* the history holds the first stroke and the new one
C24_Witness ==
    /\ lastOp.kind = "endDrawing"
    /\ \E u \in Users :
          /\ lastOp.user = u
          /\ client[u].userHistory = <<EarlierIds(3)[1], lastOp.id>>
          /\ client[u].userHistoryIndex = 1

\* C27: no step leaves a user's history longer than 100 ids or the cursor
\* past its end; and when a stroke is completed with the cursor at the end
\* of a history of 100, the oldest id is dropped, the other 99 keep their
\* order, the new id comes last, and the cursor points at it.
C27_HistoryLimit ==
    [][\A u \in Users :
          /\ Len(client'[u].userHistory) <= HISTORY_LIMIT
          /\ client'[u].userHistoryIndex < Len(client'[u].userHistory)
          /\ (/\ Completes(u)
              /\ Len(client[u].userHistory) = HISTORY_LIMIT
              /\ client[u].userHistoryIndex = HISTORY_LIMIT - 1) =>
                 /\ client'[u].userHistory =
                       Tail(client[u].userHistory) \o <<currentRef[u].id>>
                 /\ client'[u].userHistoryIndex = HISTORY_LIMIT - 1]_vars

\* a stroke has just been completed on a full history: the second of the
\* earlier strokes is now the oldest entry and the new stroke the newest
C27_Witness ==
    /\ lastOp.kind = "endDrawing"
    /\ \E u \in Users :
          /\ lastOp.user = u
          /\ Len(client[u].userHistory) = HISTORY_LIMIT
          /\ client[u].userHistory[1] = EarlierIds(HISTORY_LIMIT)[2]
          /\ client[u].userHistory[HISTORY_LIMIT] = lastOp.id
          /\ client[u].userHistoryIndex = HISTORY_LIMIT - 1

\* u handles a canvas-undo or canvas-redo of another user
RemoteFlagArrives(u) ==
    /\ InboxIs(u, "canvas-undo") \/ InboxIs(u, "canvas-redo")
    /\ lastOp'.kind \in {"handleRemoteUndo", "handleRemoteRedo"} /\ lastOp'.user = u
    /\ Head(inbox[u]).userId # u

\* C25: when a client handles the canvas-undo or canvas-redo of another
\* user for a stroke, it holds at most one stroke with that id and author,
\* that stroke gets isDeleted = true (undo) or false (redo) and keeps all
\* its other fields, and nothing else changes: not the other strokes, not
\* the client's own history and cursor, not any other field of its state,
\* and nothing is sent.
C25_RemoteUndoRedoFrame ==
    [][\A u \in Users :
          RemoteFlagArrives(u) =>
             LET m == Head(inbox[u])
                 old == client[u].drawings
                 hit == {k \in 1..Len(old) :
                           old[k].id = m.drawingId /\ old[k].userId = m.userId}
             IN  /\ Cardinality(hit) <= 1
                 /\ Cardinality(StrokesWithId(old, m.drawingId)) = Cardinality(hit)
                 /\ client'[u] =
                       [client[u] EXCEPT !.drawings =
                          [k \in 1..Len(old) |->
                             IF k \in hit
                             THEN Spread(old[k], [isDeleted |-> m.type = "canvas-undo"])
                             ELSE old[k]]]
                 /\ toRelay' = toRelay
                 /\ \A v \in Users \ {u} : client'[v] = client[v]]_vars

\* a client with a stroke of its own in its history has just marked another
\* user's stroke deleted on that user's undo
C25_Witness ==
    /\ lastOp.kind = "handleRemoteUndo"
    /\ LET c == client[lastOp.user]
       IN  /\ c.userHistoryIndex >= 0
           /\ \E k \in 1..Len(c.drawings) :
                 /\ c.drawings[k].userId # lastOp.user
                 /\ Truthy(c.drawings[k], "isDeleted")
                 /\ Len(c.drawings[k].points) > 1
           /\ \E k \in 1..Len(c.drawings) :
                 /\ c.drawings[k].id = c.userHistory[c.userHistoryIndex + 1]
                 /\ ~Truthy(c.drawings[k], "isDeleted")

\* u clears the canvas, or handles the canvas-clear the relay sent it
ClearsLocally(u) ==
    lastOp'.kind \in {"clearCanvas", "handleCanvasClear"} /\ lastOp'.user = u

\* C26: a client that clears the canvas, and a client that handles a
\* canvas-clear, has no drawings, an empty history and the cursor at -1
\* afterwards, whatever it held before, and the rest of its state as before.
C26_ClearResetsHistory ==
    [][\A u \in Users :
          ClearsLocally(u) =>
             client'[u] = [client[u] EXCEPT !.drawings = <<>>,
                                            !.userHistory = <<>>,
                                            !.userHistoryIndex = -1]]_vars

\* the client that cleared has handled the canvas-clear, and the other
\* member, who has a completed stroke in its history, is about to
C26_Witness ==
    /\ lastOp.kind = "handleCanvasClear"
    /\ client[lastOp.user].userHistory = <<>>
    /\ client[lastOp.user].userHistoryIndex = -1
    /\ client[lastOp.user].drawings = <<>>
    /\ \E v \in Users \ {lastOp.user} :
          /\ InboxIs(v, "canvas-clear")
          /\ client[v].userHistoryIndex >= 0
          /\ client[v].drawings # <<>>

\* the relay answers a request to create a room
Creates(r) == lastOp'.kind \in {"create-ok", "create-409"} /\ lastOp'.room = r

\* C29: a request to create a room whose id is taken is answered 409 (room
\* already exists) and leaves every room, the taken one with its users and
\* stroke log included, as it was; a request for a free id is answered with
\* success and adds a room with that id, no users and an empty stroke log,
\* leaving the other rooms as they were, and roomExists is true of the id
\* afterwards; neither touches anything else the relay or a client holds.
C29_CreateRoom ==
    [][\A r \in RoomIds :
          Creates(r) =>
             /\ IF roomExists(rooms, r)
                THEN lastOp'.kind = "create-409" /\ rooms' = rooms
                ELSE /\ lastOp'.kind = "create-ok"
                     /\ DOMAIN rooms' = DOMAIN rooms \cup {r}
                     /\ rooms'[r] = [id |-> r, users |-> {}, drawings |-> <<>>]
                     /\ \A q \in DOMAIN rooms : rooms'[q] = rooms[q]
             /\ roomExists(rooms', r)
             /\ UNCHANGED <<userRooms, sockRooms, connected, toRelay, inbox, client>>
             /\ emitted' = <<>>]_vars

\* a request to create a room that has a member and a stored stroke has
\* just been refused
C29_Witness ==
    /\ lastOp.kind = "create-409"
    /\ roomExists(rooms, lastOp.room)
    /\ rooms[lastOp.room].users # {}
    /\ rooms[lastOp.room].drawings # <<>>

\* the positions of the drawing-data messages client u sends in this step
SentDrawings(u) ==
    {i \in (Len(toRelay[u]) + 1)..Len(toRelay'[u]) :
        toRelay'[u][i].type = "drawing-data"}

\* an earlier message of the same stroke is still queued before position i, or
\* the relay already stores the stroke
SentBefore(u, i) ==
    LET id == toRelay'[u][i].data.id
    IN  \/ \E j \in 1..(i - 1) : /\ toRelay'[u][j].type = "drawing-data"
                                   /\ toRelay'[u][j].data.id = id
        \/ \E r \in DOMAIN rooms : StrokesWithId(rooms[r].drawings, id) # {}

\* C30: every drawing-data message the authoring client sends carries the
\* whole point list of the stroke so far and no isIncremental or
\* basePointCount field: it extends, from the first point on, every message of
\* the same stroke still queued before it and the version the relay stores;
\* the increment (points after the stored ones, basePointCount the stored
\* length) is made by the relay for the other members of the room.
C30_ClientSendsWholeStroke ==
    [][/\ \A u \in Users : \A i \in SentDrawings(u) :
          LET data == toRelay'[u][i].data
          IN  /\ ~Has(data, "isIncremental")
              /\ ~Has(data, "basePointCount")
              /\ data.userId = u
              /\ \A j \in 1..(i - 1) :
                    (toRelay'[u][j].type = "drawing-data"
                       /\ toRelay'[u][j].data.id = data.id)
                    => IsPrefix(toRelay'[u][j].data.points, data.points)
              /\ \A r \in DOMAIN rooms :
                    \A k \in StrokesWithId(rooms[r].drawings, data.id) :
                       IsPrefix(rooms[r].drawings[k].points, data.points)
       /\ (lastOp'.kind = "drawing-data" /\ lastOp'.room \in DOMAIN rooms) =>
             LET data == Head(toRelay[lastOp'.user]).data
                 ds == rooms[lastOp'.room].drawings
             IN  \A k \in StrokesWithId(ds, data.id) :
                   \A e \in 1..Len(emitted') :
                      LET sent == emitted'[e].msg.data
                      IN  /\ Truthy(sent, "isIncremental")
                          /\ sent.basePointCount = Len(ds[k].points)
                          /\ ds[k].points \o sent.points = data.points]_vars

\* the relay stores a stroke and its author has queued a longer version of it
\* that repeats the stored points and is not marked incremental
C30_Witness ==
    \E u \in Users : \E i \in 1..Len(toRelay[u]) : \E r \in DOMAIN rooms :
        /\ toRelay[u][i].type = "drawing-data"
        /\ ~Has(toRelay[u][i].data, "isIncremental")
        /\ \E k \in StrokesWithId(rooms[r].drawings, toRelay[u][i].data.id) :
              /\ rooms[r].drawings[k].userId = u
              /\ Len(rooms[r].drawings[k].points) < Len(toRelay[u][i].data.points)
              /\ IsPrefix(rooms[r].drawings[k].points, toRelay[u][i].data.points)

\* C30 as stated: each message the client sends after the first of a stroke is
\* marked incremental and carries a basePointCount
C30_AsStated ==
    [][\A u \in Users : \A i \in SentDrawings(u) :
          SentBefore(u, i) =>
             /\ Truthy(toRelay'[u][i].data, "isIncremental")
             /\ Has(toRelay'[u][i].data, "basePointCount")]_vars

\* client u handles a canvas-undo or canvas-redo that carries its own userId
OwnFlagEcho(u) ==
    /\ lastOp'.kind \in {"handleRemoteUndo", "handleRemoteRedo"}
    /\ lastOp'.user = u
    /\ Head(inbox[u]).userId = u

\* C28: when the relay handles a drawing-data message of a client it sends
\* nothing to that client (its inbox stays as it was) and no client state
\* changes in the step; when a client handles a canvas-undo or canvas-redo
\* whose userId is its own, its drawings, history, cursor and stroke in
\* progress stay exactly as they were.
C28_NoLocalEcho ==
    [][/\ lastOp'.kind = "drawing-data" =>
             /\ inbox'[lastOp'.user] = inbox[lastOp'.user]
             /\ \A e \in 1..Len(emitted') : emitted'[e].to # lastOp'.user
             /\ UNCHANGED <<client, currentRef>>
       /\ \A u \in Users :
             OwnFlagEcho(u) => UNCHANGED <<client, currentRef>>]_vars

\* the only member of a room has just handled the relayed copy of an undo of
\* its own, after it had redone the stroke: the stroke is still shown and the
\* cursor still points at it
C28_Witness ==
    \E u \in Authors :
        /\ lastOp.kind = "handleRemoteUndo"
        /\ lastOp.user = u
        /\ client[u].roomId # NoRoomId
        /\ Members(sockRooms, client[u].roomId) = {u}
        /\ client[u].userHistoryIndex >= 0
        /\ \E i \in 1..Len(client[u].drawings) :
              /\ client[u].drawings[i].id = client[u].userHistory[client[u].userHistoryIndex + 1]
              /\ client[u].drawings[i].userId = u
              /\ Has(client[u].drawings[i], "isDeleted")
              /\ ~Truthy(client[u].drawings[i], "isDeleted")

\* client u switches tools while a stroke of its own is in progress
SwitchesMidStroke(u) ==
    /\ lastOp'.kind = "setTool"
    /\ lastOp'.user = u
    /\ client[u].isDrawing
    /\ currentRef[u] # NoDrawing

\* C31: switching tools while a stroke is in progress ends the stroke as
\* pointer-up does: capture stops (isDrawing false, no stroke in progress) and
\* the stroke's id becomes the newest entry of the user's history with the
\* cursor on it, so that the next undo targets it.
C31_ToolSwitchEndsStroke ==
    [][\A u \in Users :
          SwitchesMidStroke(u) =>
             /\ ~client'[u].isDrawing
             /\ currentRef'[u] = NoDrawing
             /\ client'[u].userHistory =
                   PushHistory(client[u].userHistory, client[u].userHistoryIndex,
                               currentRef[u].id)
             /\ client'[u].userHistoryIndex = Len(client'[u].userHistory) - 1
             /\ client'[u].userHistory[client'[u].userHistoryIndex + 1] = currentRef[u].id]_vars

\* client u ends a stroke in progress
Ends(u) == lastOp'.kind = "endDrawing" /\ lastOp'.user = u

\* what the service holds and has sent for client u
Outgoing(u) == <<svc[u], toRelay[u]>>

\* C32: when a stroke ends, the client hands its final version (the complete
\* point list) to the service once more only if the tool is the line tool,
\* and the service queues or emits it only while connected; for every other
\* tool, circle and rectangle included, the end of the stroke sends nothing
\* and leaves the service's buffer as it was.
C32_FinalMessageForLineOnly ==
    [][\A u \in Users :
          Ends(u) =>
             IF currentRef[u].tool = "line" /\ connected[u]
             THEN LET C == sendDrawingData([svc |-> svc[u], out |-> toRelay[u]],
                                           TRUE, currentRef[u])
                  IN  /\ svc'[u] = C.svc
                      /\ toRelay'[u] = C.out
                      /\ Outgoing(u)' # Outgoing(u)
             ELSE Outgoing(u)' = Outgoing(u)]_vars

\* a line of more than one point has just ended and its final version is the
\* newest entry of the service's buffer
C32_Witness ==
    \E u \in Authors :
        /\ lastOp.kind = "endDrawing"
        /\ lastOp.user = u
        /\ svc[u].drawingBuffer # <<>>
        /\ LET final == svc[u].drawingBuffer[Len(svc[u].drawingBuffer)]
           IN  /\ final.id = lastOp.id
               /\ final.tool = "line"
               /\ Len(final.points) > 1
               /\ \E i \in 1..Len(client[u].drawings) : client[u].drawings[i] = final

\* C32 as stated: the end of a stroke drawn with any two-endpoint tool hands
\* a final message to the service of a connected client
C32_AsStated ==
    [][\A u \in Users :
          (Ends(u) /\ currentRef[u].tool \in ShapeTools /\ connected[u])
             => Outgoing(u)' # Outgoing(u)]_vars

\* the service of client u buffers a version of stroke id with at least n points
Buffered(u, id, n) ==
    \E i \in 1..Len(svc[u].drawingBuffer) :
        svc[u].drawingBuffer[i].id = id /\ Len(svc[u].drawingBuffer[i].points) >= n

\* a drawing-data message of client u for stroke id with at least n points is
\* on its way to the relay
Emitted(u, id, n) ==
    \E i \in 1..Len(toRelay[u]) :
        /\ toRelay[u][i].type = "drawing-data"
        /\ toRelay[u][i].data.id = id
        /\ Len(toRelay[u][i].data.points) >= n

C34_FullMessageRepairsPartial ==
    [][\A u \in Users :
          Applies(u) =>
             LET data == Head(inbox[u]).data
                 before == client[u].drawings
                 after == client'[u].drawings
             IN  /\ Cardinality(StrokesWithId(after, data.id)) = 1
                 /\ (Truthy(data, "isIncremental") /\ StrokesWithId(before, data.id) = {})
                       => /\ \E i \in 1..Len(after) : after[i] = data
                          /\ Range(after) = Range(before) \cup {data}
                 /\ ~Truthy(data, "isIncremental")
                       => PointsOf(after, data.id) = data.points]_vars

\* a client has just applied a full message to the partial record of an
\* increment: the record still carries the increment's isIncremental and
\* basePointCount and holds the first points of the author's stream, no more
\* of them than the base, which no merge of an increment produces
C34_Witness ==
    \E u \in Peers : \E i \in 1..Len(client[u].drawings) :
        LET d == client[u].drawings[i]
        IN  /\ lastOp.kind = "handleDrawingData"
            /\ lastOp.user = u
            /\ Truthy(d, "isIncremental")
            /\ Has(d, "basePointCount")
            /\ d.points = SubSeq(Stream, 1, Len(d.points))
            /\ Len(d.points) <= d.basePointCount

\* the newest cursor position the service of client u has buffered is p
LatestIs(u, p) ==
    /\ svc[u].cursorBuffer # <<>>
    /\ svc[u].cursorBuffer[Len(svc[u].cursorBuffer)].cursor = p

\* a user-cursor message of client u carrying p is on its way to the relay
CursorEmitted(u, p) ==
    \E i \in 1..Len(toRelay[u]) :
        toRelay[u][i].type = "user-cursor" /\ toRelay[u][i].cursor = p

\* C35: while the socket stays connected, the newest cursor position a client
\* has submitted is eventually emitted to the relay as user-cursor, unless a
\* newer position replaces it first, even if the pointer stops moving.
C35_LastCursorIsSent ==
    \A u \in Authors : \A p \in CursorPoints :
        (connected[u] /\ LatestIs(u, p))
           ~> \/ CursorEmitted(u, p)
              \/ ~connected[u]
              \/ \E q \in CursorPoints \ {p} : LatestIs(u, q)

\* no clear of the canvas is on its way to the relay or to a client
NoClearInFlight ==
    \A v \in Users :
        /\ \A i \in 1..Len(toRelay[v]) : toRelay[v][i].type # "clear-canvas"
        /\ \A i \in 1..Len(inbox[v]) : inbox[v][i].type # "canvas-clear"

\* client u, a member of a room whose log the relay has emptied, has just
\* handled the canvas-clear while its stroke was in progress; the relay had
\* every message of the stroke sent so far, and every client is done with
\* the clear
ClearedMidStroke(u) ==
    /\ lastOp.kind = "handleCanvasClear"
    /\ lastOp.user = u
    /\ client[u].isDrawing
    /\ currentRef[u] # NoDrawing
    /\ client[u].roomId \in DOMAIN rooms
    /\ u \in rooms[client[u].roomId].users
    /\ rooms[client[u].roomId].drawings = <<>>
    /\ toRelay[u] = <<>>
    /\ svc[u].drawingBuffer = <<>>
    /\ NoClearInFlight

\* C36: once the relay has emptied the log and every client has handled the
\* canvas-clear, the next sample of a stroke that was in progress during the
\* clear does not put that stroke back into the author's local drawings, and
\* sends nothing that would put it back into the relay's log.
C36_ClearedStrokeStaysCleared ==
    [][\A u \in Users :
          (ClearedMidStroke(u) /\ lastOp'.kind = "draw" /\ lastOp'.user = u)
             => /\ StrokesWithId(client'[u].drawings, currentRef[u].id) = {}
                /\ svc'[u].drawingBuffer = <<>>
                /\ toRelay'[u] = <<>>]_vars

\* the relay handles a join-room of socket u
JoinHandled(u) ==
    /\ HeadIs(u, "join-room")
    /\ lastOp'.kind \in {"join-ok", "join-error"}
    /\ lastOp'.user = u

\* C38: a join-room for a room that exists when the relay handles it
\* succeeds: the room still exists afterwards with its stroke log, the user
\* is one of its members, and the caller is sent room-joined and no
\* room-error; this includes the caller that is already the room's only
\* member.
C38_JoinOfExistingRoomSucceeds ==
    [][\A u \in Users :
          LET m == Head(toRelay[u])
          IN  (JoinHandled(u) /\ m.roomId \in DOMAIN rooms)
                 => /\ lastOp'.kind = "join-ok"
                    /\ m.roomId \in DOMAIN rooms'
                    /\ m.userId \in rooms'[m.roomId].users
                    /\ rooms'[m.roomId].drawings = rooms[m.roomId].drawings
                    /\ \E e \in 1..Len(emitted') :
                          emitted'[e].to = u /\ emitted'[e].msg.type = "room-joined"
                    /\ \A e \in 1..Len(emitted') :
                          emitted'[e].msg.type # "room-error"]_vars

\* client u handles a canvas-clear while the relay's log of its room already
\* holds stroke id, which u has completed (it is in u's drawings and history):
\* the relay took the stroke in after the clear this message reports
EchoAfterStroke(u, id) ==
    /\ InboxIs(u, "canvas-clear")
    /\ lastOp'.kind = "handleCanvasClear"
    /\ lastOp'.user = u
    /\ ~client[u].isDrawing
    /\ id \in Range(client[u].userHistory)
    /\ \E i \in StrokesWithId(client[u].drawings, id) : client[u].drawings[i].userId = u
    /\ client[u].roomId \in DOMAIN rooms
    /\ StrokesWithId(rooms[client[u].roomId].drawings, id) # {}

\* C37: a stroke that a client drew and completed after clearing the canvas,
\* and that the relay holds, stays in the client's local drawings and
\* history when the copy of its own clear comes back from the relay.
C37_NewStrokeSurvivesOwnClear ==
    [][\A u \in Authors : \A id \in StrokeIds :
          EchoAfterStroke(u, id)
             => /\ id \in Range(client'[u].userHistory)
                /\ StrokesWithId(client'[u].drawings, id) # {}]_vars

\* C39: in every state, every id in a client's userHistory denotes a stroke
\* of that user in the client's local drawings, and that stroke is flagged
\* isDeleted exactly when its position in the history lies beyond the
\* cursor.
C39_HistoryDenotesLocalStrokes ==
    \A u \in Users : \A k \in 1..Len(client[u].userHistory) :
        \E i \in StrokesWithId(client[u].drawings, client[u].userHistory[k]) :
            /\ client[u].drawings[i].userId = u
            /\ Truthy(client[u].drawings[i], "isDeleted")
                  <=> (k - 1 > client[u].userHistoryIndex)

\* C40: in every state the history cursor of every client is at least -1 and
\* at most the last position of its history (0-based), whatever strokes were
\* completed, undone, redone, evicted at the limit, or cleared by the client
\* or by a canvas-clear.
C40_CursorWithinHistory ==
    \A u \in Users :
        /\ client[u].userHistoryIndex >= -1
        /\ client[u].userHistoryIndex <= Len(client[u].userHistory) - 1
        /\ Len(client[u].userHistory) <= HISTORY_LIMIT

\* a full history has evicted its oldest entry for a new stroke, and that
\* stroke has just been undone: the cursor stands one below the last position
C40_Witness ==
    \E u \in Authors :
        /\ lastOp.kind = "undo"
        /\ lastOp.user = u
        /\ Len(client[u].userHistory) = HISTORY_LIMIT
        /\ client[u].userHistory[1] = EarlierIds(HISTORY_LIMIT)[2]
        /\ client[u].userHistory[HISTORY_LIMIT] = lastOp.id
        /\ lastOp.id \in StrokeIds
        /\ client[u].userHistoryIndex = HISTORY_LIMIT - 2

====
